---- MODULE Spec2Model ----
(***************************************************************************)
(* Image operations of the SwiftShader SPIR-V shader core                  *)
(* (src/Pipeline/SpirvShaderImage.cpp): the per-call-site sampler function *)
(* cache, the texel address calculator, the image read and write paths and *)
(* the pixel codec.                                                        *)
(*                                                                         *)
(* The module holds several specifications over one set of variables:      *)
(*   Spec       the sampler cache driven by one thread (EmitImageSample)   *)
(*   SpecConc   two threads running lookupSamplerFunction step by step     *)
(*   SpecImage  EmitImageRead / EmitImageWrite on image memory             *)
(*   SpecCodec  the encode (write) and decode (read) format switches       *)
(*   SpecSample the decoding of a sampling instruction and the sampler call *)
(*   SpecQuery  the image queries (size, levels, samples)                   *)
(* Each specification holds the variables of the others at an idle value.  *)
(***************************************************************************)
EXTENDS Integers, Sequences, FiniteSets, TLC

VARIABLES
    samplerCache,   \* state->routine->samplerCache: position -> SamplerCache entry
    history,        \* the EmitImageSample executions so far, oldest first
    resolverCalls,  \* number of calls of getImageSampler so far
    shared,         \* SpecConc: do both threads use one cache array?
    entries,        \* SpecConc: cache array index -> SamplerCache entry
    thread,         \* SpecConc: thread -> its position inside lookupSamplerFunction
    image,          \* SpecImage: the bound image (type, format, descriptor)
    memory,         \* SpecImage: the image's memory, address -> byte
    op,             \* SpecImage: the last image instruction executed
    codec,          \* SpecCodec: one texel through the write and read switches
    emit,           \* SpecSample: one EmitImageSample, from raw words to the routine's input
    query           \* SpecQuery: one image query instruction and its result

cacheVars == <<samplerCache, history, resolverCalls>>
concVars == <<shared, entries, thread>>
imageVars == <<image, memory, op>>
codecVars == <<codec>>
sampleVars == <<emit>>
queryVars == <<query>>
vars == <<samplerCache, history, resolverCalls, shared, entries, thread,
          image, memory, op, codec, emit, query>>

Idle == "idle"

CacheIdle == samplerCache = Idle /\ history = Idle /\ resolverCalls = Idle
ConcIdle == shared = Idle /\ entries = Idle /\ thread = Idle
ImageIdle == image = Idle /\ memory = Idle /\ op = Idle
CodecIdle == codec = Idle
SampleIdle == emit = Idle
QueryIdle == query = Idle

(***************************************************************************)
(* Bounds of the model.                                                    *)
(***************************************************************************)
NumDescriptors == 2     \* descriptor records a call site may be bound to
MaxSamplerId == 2       \* sampler identities 1..MaxSamplerId
MaxLookups == 3         \* EmitImageSample executions in one behaviour
MaxRounds == 2          \* SpecConc: lookups each thread makes
Width == 2              \* SIMD::Width, the lanes of one invocation group
Lanes == 0 .. (Width - 1)

(***************************************************************************)
(* Sampler function cache, single thread.                                  *)
(***************************************************************************)

\* Pointers to vk::SampledImageDescriptor records; 0 is nullptr.
Descriptors == 1..NumDescriptors

\* The null routine pointer.
NullFunction == [state |-> 0, samplerId |-> 0, imageViewId |-> 0]

\* *Pointer<Int>(samplerDescriptor + OFFSET(SampledImageDescriptor, samplerId)):
\* the descriptors are read-only here; several records may hold one sampler.
DescriptorSamplerId(descriptor) == (descriptor % MaxSamplerId) + 1

\* *Pointer<Int>(imageDescriptor + OFFSET(SampledImageDescriptor, imageViewId))
DescriptorImageViewId(descriptor) == descriptor

\* The static instructions (call sites), by position in the instruction stream:
\*   "Combined"  the operand is a combined image sampler loaded from the set
\*   "Separate"  the operand is the result of OpSampledImage (own sampler descriptor)
\*   "Image"     the operand is a plain image (OpImageFetch): no sampler
Positions == {1, 2, 3}
OperandKind(position) ==
    CASE position = 1 -> "Combined"
      [] position = 2 -> "Separate"
      [] OTHER -> "Image"

\* sampledImage.opcode() == spv::OpSampledImage
IsOpSampledImage(position) == OperandKind(position) = "Separate"

\* getType(sampledImage).opcode() == spv::OpTypeSampledImage
IsSampledImageType(position) == OperandKind(position) # "Image"

\* getImageSampler(device, instruction.state, samplerId, imageViewId): the external
\* resolver; the routine it returns is identified by what it was resolved for.
getImageSampler(position, samplerId, imageViewId) ==
    [state |-> position, samplerId |-> samplerId, imageViewId |-> imageViewId]

\* Variant: the identity is the descriptor's field for every operand type.
SamplerIdentityFromDescriptor(position, imageDescriptor, samplerPointer) ==
    DescriptorSamplerId(IF IsOpSampledImage(position) THEN samplerPointer
                        ELSE imageDescriptor)

\* The sampler identity lookupSamplerFunction uses (lines 256-268).
SamplerIdentity(position, imageDescriptor, samplerPointer) ==
    LET samplerDescriptor ==
            IF IsOpSampledImage(position) THEN samplerPointer ELSE imageDescriptor
        samplerId == DescriptorSamplerId(samplerDescriptor)
    IN  IF ~IsSampledImageType(position) THEN 0 ELSE samplerId

\* Variant of CacheHit: the sampler identity is left out of the comparison.
CacheHitDescriptorOnly(cache, imageDescriptor, samplerId) ==
    cache.imageDescriptor = imageDescriptor

\* cacheHit (line 271)
CacheHit(cache, imageDescriptor, samplerId) ==
    (cache.imageDescriptor = imageDescriptor) /\ (cache.samplerId = samplerId)

\* Variant of StoreEntry: the samplerId field is not written on a miss.
StoreEntryStaleSampler(cache, function, imageDescriptor, samplerId) ==
    [function |-> function, imageDescriptor |-> imageDescriptor,
     samplerId |-> cache.samplerId]

\* Variant of StoreEntry: an entry already in use is kept, the new key is not stored.
StoreEntryKeepFirst(cache, function, imageDescriptor, samplerId) ==
    IF cache.imageDescriptor = 0
    THEN [function |-> function, imageDescriptor |-> imageDescriptor,
          samplerId |-> samplerId]
    ELSE cache

\* The three assignments of the miss branch (lines 277-279).
StoreEntry(cache, function, imageDescriptor, samplerId) ==
    [function |-> function, imageDescriptor |-> imageDescriptor, samplerId |-> samplerId]

\* lookupSamplerFunction: the entry after the call, the function returned and the
\* number of resolver calls made.
lookupSamplerFunction(cache, position, imageDescriptor, samplerPointer) ==
    LET samplerId == SamplerIdentity(position, imageDescriptor, samplerPointer)
        cacheHit == CacheHit(cache, imageDescriptor, samplerId)
        imageViewId == DescriptorImageViewId(imageDescriptor)
        resolved == getImageSampler(position, samplerId, imageViewId)
        after == IF ~cacheHit
                 THEN StoreEntry(cache, resolved, imageDescriptor, samplerId)
                 ELSE cache
    IN  [cache |-> after, function |-> after.function,
         calls |-> IF cacheHit THEN 0 ELSE 1, samplerId |-> samplerId]

\* A SamplerCache entry before its first use: imageDescriptor is nullptr, the
\* other two fields carry no initializer.
FreshEntries ==
    [imageDescriptor : {0}, samplerId : 0..MaxSamplerId, function : {NullFunction}]

InitCache ==
    /\ samplerCache \in [Positions -> FreshEntries]
    /\ \A p, q \in Positions : samplerCache[p] = samplerCache[q]
    /\ history = <<>>
    /\ resolverCalls = 0
    /\ ConcIdle /\ ImageIdle /\ CodecIdle /\ SampleIdle /\ QueryIdle

\* Variant: the jump over the sampling code is elided, the body always runs.
AnyTrueAlways(mask) == TRUE

\* AnyTrue(state->activeLaneMask()) (line 235)
AnyTrue(mask) == \E l \in Lanes : mask[l]

\* EmitImageSample: EmitImageSampleUnconditional (the lookup, then the call of
\* the routine it returns) runs only if a lane is active. A history entry
\* records whether the mask had a lane set (active) and whether the body ran
\* (executed).
EmitImageSample(position, activeLaneMask, imageDescriptor, samplerPointer) ==
    LET r == lookupSamplerFunction(samplerCache[position], position,
                                   imageDescriptor, samplerPointer)
        active == activeLaneMask # [l \in Lanes |-> FALSE]
    IN  /\ Len(history) < MaxLookups
        /\ IsOpSampledImage(position) \/ samplerPointer = imageDescriptor
        /\ IF AnyTrue(activeLaneMask)
           THEN /\ samplerCache' = [samplerCache EXCEPT ![position] = r.cache]
                /\ resolverCalls' = resolverCalls + r.calls
                /\ history' = Append(history,
                       [position |-> position, executed |-> TRUE, active |-> active,
                        imageDescriptor |-> imageDescriptor,
                        samplerDescriptor |-> samplerPointer,
                        samplerId |-> r.samplerId,
                        calls |-> r.calls, function |-> r.function])
           ELSE /\ imageDescriptor = 1 /\ samplerPointer = 1
                /\ UNCHANGED <<samplerCache, resolverCalls>>
                /\ history' = Append(history,
                       [position |-> position, executed |-> FALSE, active |-> active,
                        imageDescriptor |-> 0, samplerDescriptor |-> 0,
                        samplerId |-> 0, calls |-> 0, function |-> NullFunction])
        /\ UNCHANGED <<concVars, imageVars, codecVars, sampleVars, queryVars>>

\* An execution is tried with three active-lane masks: no lane, the last lane
\* alone, every lane.
NextCache ==
    \E position \in Positions,
       activeLaneMask \in {[l \in Lanes |-> FALSE], [l \in Lanes |-> l = Width - 1],
                           [l \in Lanes |-> TRUE]},
       imageDescriptor \in Descriptors, samplerPointer \in Descriptors :
        EmitImageSample(position, activeLaneMask, imageDescriptor, samplerPointer)

Spec == InitCache /\ [][NextCache]_vars

(***************************************************************************)
(* Claims about the single-threaded cache.                                 *)
(***************************************************************************)

\* The largest element of a non-empty finite set of integers.
MaxOf(S) == CHOOSE x \in S : \A y \in S : y <= x

\* The executed lookups of the history at one call site, as indices.
LookupsAt(position, upTo) ==
    {i \in 1..upTo : history[i].executed /\ history[i].position = position}

\* The lookup that precedes lookup j at j's call site, 0 if j is the first there.
PrevLookup(j) ==
    LET S == LookupsAt(history[j].position, j - 1)
    IN  IF S = {} THEN 0 ELSE MaxOf(S)

SameKey(i, j) ==
    /\ history[i].imageDescriptor = history[j].imageDescriptor
    /\ history[i].samplerId = history[j].samplerId

\* C1: at one call site, a lookup whose descriptor pointer and sampler identity
\* equal those of the lookup before it makes no resolver call; a lookup whose
\* descriptor or sampler identity differs from the cached one (or that finds the
\* entry unused) makes exactly one, and returns what that call produced.
C1_CacheLaw ==
    /\ \A j \in 1..Len(history) :
        history[j].executed =>
            LET i == PrevLookup(j)
            IN  IF i # 0 /\ SameKey(i, j)
                THEN history[j].calls = 0
                ELSE /\ history[j].calls = 1
                     /\ history[j].function =
                            getImageSampler(history[j].position, history[j].samplerId,
                                DescriptorImageViewId(history[j].imageDescriptor))
    /\ resolverCalls =
          Cardinality({j \in 1..Len(history) : history[j].calls = 1})

\* C1 witness: a repeated key that made no call, after a changed sampler identity
\* on the same descriptor that made one.
C1_Witness ==
    /\ Len(history) = 3
    /\ \A j \in 1..3 : history[j].executed /\ history[j].position = 2
    /\ history[1].imageDescriptor = history[2].imageDescriptor
    /\ history[1].samplerId # history[2].samplerId
    /\ SameKey(2, 3)
    /\ history[2].calls = 1 /\ history[3].calls = 0

\* C2: whenever a lookup has returned, the entry of its call site stores the
\* descriptor and the sampler identity of that lookup, and the function stored
\* and returned is the one the resolver produces for that pair.
C2_EntryMatchesKey ==
    \A p \in Positions :
        LET S == LookupsAt(p, Len(history))
        IN  S # {} =>
            LET e == history[MaxOf(S)]
            IN  /\ samplerCache[p].imageDescriptor = e.imageDescriptor
                /\ samplerCache[p].samplerId = e.samplerId
                /\ samplerCache[p].function = e.function
                /\ e.function = getImageSampler(p, e.samplerId,
                                    DescriptorImageViewId(e.imageDescriptor))

\* C2 witness: a miss that replaced an entry in use, changing all three fields.
C2_Witness ==
    /\ Len(history) >= 2
    /\ LET j == Len(history)
           i == PrevLookup(j)
       IN  /\ history[j].executed /\ i # 0
           /\ history[j].calls = 1
           /\ history[i].imageDescriptor # history[j].imageDescriptor
           /\ history[i].samplerId # history[j].samplerId
           /\ history[i].function # history[j].function
           /\ samplerCache[history[j].position].function = history[j].function

\* C7: the entry holds one key only. In a sequence A, B, A at one call site every
\* lookup calls the resolver (the first provided it found the entry unused or
\* holding another key), and after each lookup the entry's key is the latest one.
C7_SingleSlot ==
    /\ \A k \in 1..Len(history) :
        history[k].executed =>
            LET j == PrevLookup(k)
                i == IF j = 0 THEN 0 ELSE PrevLookup(j)
            IN  (i # 0 /\ SameKey(i, k) /\ ~SameKey(j, k)) =>
                    /\ history[j].calls = 1
                    /\ history[k].calls = 1
                    /\ (PrevLookup(i) = 0 => history[i].calls = 1)
    /\ \A p \in Positions :
        LET S == LookupsAt(p, Len(history))
        IN  S # {} =>
            /\ samplerCache[p].imageDescriptor = history[MaxOf(S)].imageDescriptor
            /\ samplerCache[p].samplerId = history[MaxOf(S)].samplerId

\* C7 witness: A, B, A at the combined-image-sampler call site, three resolver calls.
C7_Witness ==
    /\ Len(history) = 3
    /\ \A j \in 1..3 : history[j].executed /\ history[j].position = 1
    /\ SameKey(1, 3) /\ ~SameKey(1, 2)
    /\ resolverCalls = 3

\* C21: an EmitImageSample whose active-lane mask has no lane set runs neither
\* the lookup nor the routine: it makes no resolver call, calls no function and
\* leaves every cache entry (function, descriptor, sampler identity) as it was;
\* one whose mask has a lane set runs both, and changes no entry but that of
\* its own call site.
C21_InactiveElided ==
    [][Len(history') = Len(history) + 1 =>
          LET e == history'[Len(history')]
          IN  /\ e.executed = e.active
              /\ ~e.active =>
                    /\ samplerCache' = samplerCache
                    /\ resolverCalls' = resolverCalls
                    /\ e.calls = 0 /\ e.function = NullFunction
              /\ e.active =>
                    /\ resolverCalls' = resolverCalls + e.calls
                    /\ e.function = samplerCache'[e.position].function
                    /\ e.function # NullFunction
                    /\ \A p \in Positions \ {e.position} :
                          samplerCache'[p] = samplerCache[p]]_vars

\* C21 witness: after a lookup that filled the entry of a call site, an
\* execution at that call site with no active lane; the entry still holds the
\* key and the function of the first.
C21_Witness ==
    /\ Len(history) = 2
    /\ history[1].executed /\ history[1].calls = 1
    /\ ~history[2].active /\ ~history[2].executed
    /\ history[2].position = history[1].position
    /\ resolverCalls = 1
    /\ samplerCache[history[1].position] =
          [function |-> history[1].function,
           imageDescriptor |-> history[1].imageDescriptor,
           samplerId |-> history[1].samplerId]

\* C22: at a call site whose operand is not of sampled-image type the sampler
\* identity compared, stored and handed to the resolver is 0, though the
\* descriptor's samplerId field is not, and a lookup hits exactly when the
\* descriptor pointer equals the one of the lookup before it; at a call site
\* whose operand comes from OpSampledImage the identity is the samplerId field
\* of the wrapper's sampler descriptor, otherwise that of the image descriptor.
C22_SamplerlessIdentity ==
    \A j \in 1..Len(history) :
        history[j].executed =>
            LET e == history[j]
                i == PrevLookup(j)
                last == MaxOf(LookupsAt(e.position, Len(history))) = j
            IN  /\ ~IsSampledImageType(e.position) =>
                      /\ DescriptorSamplerId(e.imageDescriptor) # 0
                      /\ e.samplerId = 0
                      /\ e.function.samplerId = 0
                      /\ last => samplerCache[e.position].samplerId = 0
                      /\ (e.calls = 0) <=>
                            (i # 0 /\ history[i].imageDescriptor = e.imageDescriptor)
                /\ IsOpSampledImage(e.position) =>
                      e.samplerId = DescriptorSamplerId(e.samplerDescriptor)
                /\ (IsSampledImageType(e.position) /\ ~IsOpSampledImage(e.position)) =>
                      e.samplerId = DescriptorSamplerId(e.imageDescriptor)
                /\ IsSampledImageType(e.position) =>
                      /\ e.function.samplerId = e.samplerId
                      /\ last => samplerCache[e.position].samplerId = e.samplerId

\* C22 witness: a fetch on a plain image hits on its second lookup of one
\* descriptor, and a lookup through OpSampledImage takes the identity of a
\* sampler descriptor that is not the image descriptor.
C22_Witness ==
    /\ Len(history) = 3
    /\ \A j \in 1..3 : history[j].executed
    /\ history[1].position = 3 /\ history[2].position = 3
    /\ history[1].imageDescriptor = history[2].imageDescriptor
    /\ history[1].calls = 1 /\ history[2].calls = 0
    /\ samplerCache[3].samplerId = 0
    /\ history[3].position = 2
    /\ history[3].samplerDescriptor # history[3].imageDescriptor
    /\ history[3].samplerId = DescriptorSamplerId(history[3].samplerDescriptor)
    /\ history[3].samplerId # DescriptorSamplerId(history[3].imageDescriptor)

(***************************************************************************)
(* Two threads inside lookupSamplerFunction. Each statement of lines       *)
(* 271-282 is one step: the comparison, the three stores of the miss       *)
(* branch, and the load of cache.function that is returned. Both threads   *)
(* run the call site at position 2 (image and sampler descriptors chosen   *)
(* independently). With shared = TRUE they use one cache array, with       *)
(* shared = FALSE each thread's routine owns its array.                    *)
(***************************************************************************)
Threads == {1, 2}
ConcPosition == CHOOSE p \in Positions : OperandKind(p) = "Separate"

\* The cache array a thread's routine uses.
ArrayOf(t) == IF shared THEN CHOOSE a \in Threads : \A b \in Threads : a <= b ELSE t

ThreadStart ==
    [pc |-> "idle", imageDescriptor |-> 0, samplerId |-> 0,
     returned |-> NullFunction, lookups |-> 0]

InitConc ==
    /\ shared \in BOOLEAN
    /\ \E fresh \in FreshEntries : entries = [a \in Threads |-> fresh]
    /\ thread = [t \in Threads |-> ThreadStart]
    /\ samplerCache = Idle /\ history = Idle /\ resolverCalls = Idle
    /\ ImageIdle /\ CodecIdle /\ SampleIdle /\ QueryIdle

\* Entry to lookupSamplerFunction: lines 256-268 compute the sampler identity.
BeginLookup(t, imageDescriptor, samplerPointer) ==
    /\ thread[t].pc = "idle"
    /\ thread[t].lookups < MaxRounds
    /\ thread' = [thread EXCEPT ![t].pc = "compare",
                                ![t].imageDescriptor = imageDescriptor,
                                ![t].samplerId =
                                    SamplerIdentity(ConcPosition, imageDescriptor,
                                                    samplerPointer)]
    /\ UNCHANGED <<shared, entries, cacheVars, imageVars, codecVars, sampleVars, queryVars>>

\* Line 271: cacheHit; line 273: If(!cacheHit).
Compare(t) ==
    /\ thread[t].pc = "compare"
    /\ thread' = [thread EXCEPT ![t].pc =
                      IF CacheHit(entries[ArrayOf(t)], thread[t].imageDescriptor,
                                  thread[t].samplerId)
                      THEN "readFunction" ELSE "writeFunction"]
    /\ UNCHANGED <<shared, entries, cacheVars, imageVars, codecVars, sampleVars, queryVars>>

\* Lines 275-277: cache.function = Call(getImageSampler, ...).
WriteFunction(t) ==
    /\ thread[t].pc = "writeFunction"
    /\ entries' = [entries EXCEPT ![ArrayOf(t)].function =
                      getImageSampler(ConcPosition, thread[t].samplerId,
                          DescriptorImageViewId(thread[t].imageDescriptor))]
    /\ thread' = [thread EXCEPT ![t].pc = "writeDescriptor"]
    /\ UNCHANGED <<shared, cacheVars, imageVars, codecVars, sampleVars, queryVars>>

\* Line 278: cache.imageDescriptor = imageDescriptor.
WriteDescriptor(t) ==
    /\ thread[t].pc = "writeDescriptor"
    /\ entries' = [entries EXCEPT ![ArrayOf(t)].imageDescriptor =
                      thread[t].imageDescriptor]
    /\ thread' = [thread EXCEPT ![t].pc = "writeSamplerId"]
    /\ UNCHANGED <<shared, cacheVars, imageVars, codecVars, sampleVars, queryVars>>

\* Line 279: cache.samplerId = samplerId.
WriteSamplerId(t) ==
    /\ thread[t].pc = "writeSamplerId"
    /\ entries' = [entries EXCEPT ![ArrayOf(t)].samplerId = thread[t].samplerId]
    /\ thread' = [thread EXCEPT ![t].pc = "readFunction"]
    /\ UNCHANGED <<shared, cacheVars, imageVars, codecVars, sampleVars, queryVars>>

\* Line 282: return cache.function.
ReadFunction(t) ==
    /\ thread[t].pc = "readFunction"
    /\ thread' = [thread EXCEPT ![t].pc = "idle",
                                ![t].returned = entries[ArrayOf(t)].function,
                                ![t].lookups = thread[t].lookups + 1]
    /\ UNCHANGED <<shared, entries, cacheVars, imageVars, codecVars, sampleVars, queryVars>>

NextConc ==
    \E t \in Threads :
        \/ \E imageDescriptor \in Descriptors, samplerPointer \in Descriptors :
               BeginLookup(t, imageDescriptor, samplerPointer)
        \/ Compare(t)
        \/ WriteFunction(t)
        \/ WriteDescriptor(t)
        \/ WriteSamplerId(t)
        \/ ReadFunction(t)

SpecConc == InitConc /\ [][NextConc]_vars

\* The function the resolver produces for the key a thread is looking up.
ResolvedFor(t) ==
    getImageSampler(ConcPosition, thread[t].samplerId,
                    DescriptorImageViewId(thread[t].imageDescriptor))

\* The entry's function is the one resolved for the entry's stored key.
EntryConsistent(e) ==
    e.function = getImageSampler(ConcPosition, e.samplerId,
                                 DescriptorImageViewId(e.imageDescriptor))

\* C6: when each thread owns its cache array, every lookup returns the function
\* resolved for its own key and leaves its entry's function matching the stored
\* key, in every interleaving. (With one shared array the witness shows an
\* interleaving in which a lookup returns a function resolved for the other
\* thread's key.)
C6_PrivateArraysSafe ==
    ~shared =>
        \A t \in Threads :
            (thread[t].pc = "idle" /\ thread[t].lookups > 0) =>
                /\ thread[t].returned = ResolvedFor(t)
                /\ EntryConsistent(entries[t])
                /\ entries[t].imageDescriptor = thread[t].imageDescriptor
                /\ entries[t].samplerId = thread[t].samplerId

\* C6 witness: one shared array, two threads with different keys, and a finished
\* lookup that returned the function resolved for the other thread's key.
C6_Witness ==
    /\ shared
    /\ \E t, u \in Threads :
        /\ t # u
        /\ thread[t].pc = "idle" /\ thread[t].lookups = 1
        /\ thread[u].lookups <= 1 /\ thread[u].imageDescriptor # 0
        /\ ResolvedFor(t) # ResolvedFor(u)
        /\ thread[t].returned = ResolvedFor(u)

\* A second outcome of the shared array: both lookups are over and the entry's
\* function does not match the key stored beside it.
C6_SharedEntryTorn ==
    /\ shared
    /\ \A t \in Threads : thread[t].pc = "idle" /\ thread[t].lookups = 1
    /\ ~EntryConsistent(entries[ArrayOf(1)])

(***************************************************************************)
(* 32-bit lane arithmetic. A lane of SIMD::Int or SIMD::UInt is kept as    *)
(* the two's-complement value of its bit pattern, -2^31 .. 2^31 - 1, for   *)
(* both types; the operators below are the ones the image code applies to  *)
(* lanes, on that representation.                                          *)
(***************************************************************************)
Pow2(n) == 2 ^ n

\* The low 31 bits of a pattern, as a natural number.
Low31(x) == IF x >= 0 THEN x ELSE (x + 2147483647) + 1

RECURSIVE AndNat(_, _)
AndNat(a, b) ==
    IF a = 0 \/ b = 0 THEN 0
    ELSE (a % 2) * (b % 2) + 2 * AndNat(a \div 2, b \div 2)

RECURSIVE OrNat(_, _)
OrNat(a, b) ==
    IF a = 0 THEN b
    ELSE IF b = 0 THEN a
    ELSE (IF a % 2 = 1 \/ b % 2 = 1 THEN 1 ELSE 0) + 2 * OrNat(a \div 2, b \div 2)

\* x & y
And32(x, y) ==
    LET low == AndNat(Low31(x), Low31(y))
    IN  IF x < 0 /\ y < 0 THEN (low - 2147483647) - 1 ELSE low

\* x | y
Or32(x, y) ==
    LET low == OrNat(Low31(x), Low31(y))
    IN  IF x < 0 \/ y < 0 THEN (low - 2147483647) - 1 ELSE low

\* x + y on SIMD::Int: the sum modulo 2^32, as a signed number
Add32(x, y) ==
    IF y > 0 /\ x > 2147483647 - y THEN (x - 2147483647 - 1) + (y - 2147483647 - 1)
    ELSE IF y < 0 /\ x < (0 - 2147483647 - 1) - y
    THEN (x + 2147483647 + 1) + (y + 2147483647 + 1)
    ELSE x + y

\* x << k, 2 <= k <= 30: the bits shifted out are lost
Shl32(x, k) ==
    LET low == x % Pow2(32 - k)
    IN  IF low >= Pow2(31 - k) THEN (low - Pow2(32 - k)) * Pow2(k) ELSE low * Pow2(k)

\* SIMD::Int >> k: arithmetic shift
Sar32(x, k) == x \div Pow2(k)

\* SIMD::UInt >> k, 2 <= k <= 30: logical shift
Shr32(x, k) == IF x >= 0 THEN x \div Pow2(k) ELSE (x \div Pow2(k)) + Pow2(32 - k)

\* Variant: the comparison is signed.
SignedGE(a, b) == a >= b

\* CmpNLT(As<SIMD::UInt>(a), b): unsigned a >= b
UnsignedGE(a, b) == IF (a < 0) = (b < 0) THEN a >= b ELSE a < 0

(***************************************************************************)
(* Lane values. SIMD::Int and SIMD::UInt lanes carry a bit pattern.  A     *)
(* SIMD::Float lane carries the exact rational num/den of its value (the   *)
(* rounding of a single-precision product by a reciprocal constant such as *)
(* 1.0f / 0xFF, below 2^-22 relative, is not represented), or names a      *)
(* value that has no rational form here: the float whose half-precision    *)
(* pattern is "half", or the sRGB power law applied to an argument.        *)
(***************************************************************************)
SInt(x) == [type |-> "Int", bits |-> x]
UInt(x) == [type |-> "UInt", bits |-> x]

RECURSIVE Gcd(_, _)
Gcd(a, b) == IF b = 0 THEN a ELSE Gcd(b, a % b)

\* The float n / d, d > 0, in lowest terms.
Ratio(n, d) ==
    LET g == Gcd(d, n % d)
    IN  [type |-> "Float", num |-> n \div g, den |-> d \div g]

\* SIMD::Float(c) for an integral constant or lane c
Float(c) == [type |-> "Float", num |-> c, den |-> 1]

FloatLess(a, b) == a.num * b.den < b.num * a.den
\* Max(a, b), Min(a, b) on SIMD::Float
FloatMax(a, b) == IF FloatLess(a, b) THEN b ELSE a
FloatMin(a, b) == IF FloatLess(b, a) THEN b ELSE a

\* Round(a * SIMD::Float(scale)) as an integer: to nearest, ties to even
Round(a, scale) ==
    LET g == Gcd(scale, a.den)
        n == a.num * (scale \div g)
        d == a.den \div g
        q == (2 * n + d) \div (2 * d)
    IN  IF (2 * n + d) % (2 * d) = 0 /\ q % 2 = 1 THEN q - 1 ELSE q

\* The float whose half-precision bit pattern is h (16 bits).
HalfFloat(h) == [type |-> "Float", half |-> h]

\* floatToHalfBits(bits of v, storeInUpperBits), for v = HalfFloat(h)
floatToHalfBits(v, storeInUpperBits) ==
    IF storeInUpperBits THEN Shl32(v.half, 16) ELSE v.half

\* halfToFloatBits(h): the bits of the float of half pattern h, a SIMD::UInt
halfToFloatBits(h) == [type |-> "UInt", half |-> h]

\* Variant: the threshold is that of the opposite transfer, 0.0031308.
sRGBtoLinearEncodeThreshold(c) ==
    IF FloatLess(c, Ratio(31308, 10000000))
    THEN Ratio(c.num * 25, c.den * 323)
    ELSE [type |-> "Float", powerLaw |-> c]

\* sRGBtoLinear (lines 76-84): c / 12.92 below 0.04045, else the power law
sRGBtoLinear(c) ==
    IF FloatLess(c, Ratio(4045, 100000))
    THEN Ratio(c.num * 25, c.den * 323)
    ELSE [type |-> "Float", powerLaw |-> c]

(***************************************************************************)
(* SpirvFormatToVulkanFormat (lines 26-74): the format of an image type's  *)
(* word 8 as a VkFormat.  A format without a case reaches UNSUPPORTED and  *)
(* VK_FORMAT_UNDEFINED is returned.                                        *)
(***************************************************************************)
SpirvImageFormats ==
    {"Rgba32f", "Rgba16f", "R32f", "Rgba8", "Rgba8Snorm", "Rg32f", "Rg16f",
     "R11fG11fB10f", "R16f", "Rgba16", "Rgb10A2", "Rg16", "Rg8", "R16",
     "R8", "Rgba16Snorm", "Rg16Snorm", "Rg8Snorm", "R16Snorm", "R8Snorm",
     "Rgba32i", "Rgba16i", "Rgba8i", "R32i", "Rg32i", "Rg16i", "Rg8i",
     "R16i", "R8i", "Rgba32ui", "Rgba16ui", "Rgba8ui", "R32ui",
     "Rgb10a2ui", "Rg32ui", "Rg16ui", "Rg8ui", "R16ui", "R8ui"}

SpirvFormatToVulkanFormat(format) ==
    CASE format = "Rgba32f" -> "R32G32B32A32_SFLOAT"
      [] format = "Rgba16f" -> "R16G16B16A16_SFLOAT"
      [] format = "R32f" -> "R32_SFLOAT"
      [] format = "Rgba8" -> "R8G8B8A8_UNORM"
      [] format = "Rgba8Snorm" -> "R8G8B8A8_SNORM"
      [] format = "Rg32f" -> "R32G32_SFLOAT"
      [] format = "Rg16f" -> "R16G16_SFLOAT"
      [] format = "R11fG11fB10f" -> "B10G11R11_UFLOAT_PACK32"
      [] format = "R16f" -> "R16_SFLOAT"
      [] format = "Rgba16" -> "R16G16B16A16_UNORM"
      [] format = "Rgb10A2" -> "A2B10G10R10_UNORM_PACK32"
      [] format = "Rg16" -> "R16G16_UNORM"
      [] format = "Rg8" -> "R8G8_UNORM"
      [] format = "R16" -> "R16_UNORM"
      [] format = "R8" -> "R8_UNORM"
      [] format = "Rgba16Snorm" -> "R16G16B16A16_SNORM"
      [] format = "Rg16Snorm" -> "R16G16_SNORM"
      [] format = "Rg8Snorm" -> "R8G8_SNORM"
      [] format = "R16Snorm" -> "R16_SNORM"
      [] format = "R8Snorm" -> "R8_SNORM"
      [] format = "Rgba32i" -> "R32G32B32A32_SINT"
      [] format = "Rgba16i" -> "R16G16B16A16_SINT"
      [] format = "Rgba8i" -> "R8G8B8A8_SINT"
      [] format = "R32i" -> "R32_SINT"
      [] format = "Rg32i" -> "R32G32_SINT"
      [] format = "Rg16i" -> "R16G16_SINT"
      [] format = "Rg8i" -> "R8G8_SINT"
      [] format = "R16i" -> "R16_SINT"
      [] format = "R8i" -> "R8_SINT"
      [] format = "Rgba32ui" -> "R32G32B32A32_UINT"
      [] format = "Rgba16ui" -> "R16G16B16A16_UINT"
      [] format = "Rgba8ui" -> "R8G8B8A8_UINT"
      [] format = "R32ui" -> "R32_UINT"
      [] format = "Rgb10a2ui" -> "A2B10G10R10_UINT_PACK32"
      [] format = "Rg32ui" -> "R32G32_UINT"
      [] format = "Rg16ui" -> "R16G16_UINT"
      [] format = "Rg8ui" -> "R8G8_UINT"
      [] format = "R16ui" -> "R16_UINT"
      [] format = "R8ui" -> "R8_UINT"
      [] OTHER -> "UNDEFINED"

(***************************************************************************)
(* The write path's format switch (EmitImageWrite, lines 1120-1289).       *)
(* texel is the texel operand, component index 0..3 -> lane value; the     *)
(* result is texelSize and packed[0..3] (words the case leaves unassigned  *)
(* are 0 here and are never stored).                                       *)
(***************************************************************************)
Or4(a, b, c, d) == Or32(Or32(Or32(a, b), c), d)

\* Variant: the channel is scaled and rounded without being clamped first.
UnormCodeUnclamped(v, scale) == Round(v, scale)

\* SIMD::UInt(Round(Min(Max(v, 0.0f), 1.0f) * SIMD::Float(scale)))
UnormCode(v, scale) == Round(FloatMin(FloatMax(v, Float(0)), Float(1)), scale)

\* SIMD::Int(Round(Min(Max(v, -1.0f), 1.0f) * SIMD::Float(scale)))
SnormCode(v, scale) == Round(FloatMin(FloatMax(v, Float(-1)), Float(1)), scale)

\* Variant: the channel is converted without the clamp at zero.
HalfUnclamped(v) == v.half

\* Max(texel.Float(i), 0.0f) of a half-representable float, as its half pattern
HalfClampedToZero(v) == IF v.half >= 32768 THEN 0 ELSE v.half

Packed(size, w0, w1, w2, w3) ==
    [texelSize |-> size, packed |-> (0 :> w0) @@ (1 :> w1) @@ (2 :> w2) @@ (3 :> w3)]

WriteFormats ==
    {"R32G32B32A32_SFLOAT", "R32G32B32A32_SINT", "R32G32B32A32_UINT",
     "R32_SFLOAT", "R32_SINT", "R32_UINT",
     "R8G8B8A8_UNORM", "R8G8B8A8_SNORM", "R8G8B8A8_SINT", "R8G8B8A8_UINT",
     "R16G16B16A16_SFLOAT", "R16G16B16A16_SINT", "R16G16B16A16_UINT",
     "R32G32_SFLOAT", "R32G32_SINT", "R32G32_UINT",
     "R16G16_SFLOAT", "R16G16_SINT", "R16G16_UINT",
     "B10G11R11_UFLOAT_PACK32", "R16_SFLOAT",
     "R16G16B16A16_UNORM", "A2B10G10R10_UNORM_PACK32", "R16G16_UNORM",
     "R8G8_UNORM", "R16_UNORM", "R8_UNORM",
     "R16G16B16A16_SNORM", "R16G16_SNORM", "R8G8_SNORM", "R16_SNORM", "R8_SNORM",
     "R8G8_SINT", "R8G8_UINT", "R16_SINT", "R16_UINT", "R8_SINT", "R8_UINT",
     "A2B10G10R10_UINT_PACK32"}

EncodeTexel(format, texel) ==
    CASE format \in {"R32G32B32A32_SFLOAT", "R32G32B32A32_SINT", "R32G32B32A32_UINT"} ->
            Packed(16, texel[0].bits, texel[1].bits, texel[2].bits, texel[3].bits)
      [] format \in {"R32_SFLOAT", "R32_SINT", "R32_UINT"} ->
            Packed(4, texel[0].bits, 0, 0, 0)
      [] format = "R8G8B8A8_UNORM" ->
            Packed(4, Or4(UnormCode(texel[0], 255),
                          Shl32(UnormCode(texel[1], 255), 8),
                          Shl32(UnormCode(texel[2], 255), 16),
                          Shl32(UnormCode(texel[3], 255), 24)), 0, 0, 0)
      [] format = "R8G8B8A8_SNORM" ->
            Packed(4, Or4(And32(SnormCode(texel[0], 127), 255),
                          Shl32(And32(SnormCode(texel[1], 127), 255), 8),
                          Shl32(And32(SnormCode(texel[2], 127), 255), 16),
                          Shl32(And32(SnormCode(texel[3], 127), 255), 24)), 0, 0, 0)
      [] format \in {"R8G8B8A8_SINT", "R8G8B8A8_UINT"} ->
            Packed(4, Or4(And32(texel[0].bits, 255),
                          Shl32(And32(texel[1].bits, 255), 8),
                          Shl32(And32(texel[2].bits, 255), 16),
                          Shl32(And32(texel[3].bits, 255), 24)), 0, 0, 0)
      [] format = "R16G16B16A16_SFLOAT" ->
            Packed(8, Or32(floatToHalfBits(texel[0], FALSE), floatToHalfBits(texel[1], TRUE)),
                      Or32(floatToHalfBits(texel[2], FALSE), floatToHalfBits(texel[3], TRUE)),
                      0, 0)
      [] format \in {"R16G16B16A16_SINT", "R16G16B16A16_UINT"} ->
            Packed(8, Or32(And32(texel[0].bits, 65535), Shl32(And32(texel[1].bits, 65535), 16)),
                      Or32(And32(texel[2].bits, 65535), Shl32(And32(texel[3].bits, 65535), 16)),
                      0, 0)
      [] format \in {"R32G32_SFLOAT", "R32G32_SINT", "R32G32_UINT"} ->
            Packed(8, texel[0].bits, texel[1].bits, 0, 0)
      [] format = "R16G16_SFLOAT" ->
            Packed(4, Or32(floatToHalfBits(texel[0], FALSE), floatToHalfBits(texel[1], TRUE)),
                      0, 0, 0)
      [] format \in {"R16G16_SINT", "R16G16_UINT"} ->
            Packed(4, Or32(And32(texel[0].bits, 65535), Shl32(And32(texel[1].bits, 65535), 16)),
                      0, 0, 0)
      [] format = "B10G11R11_UFLOAT_PACK32" ->
            Packed(4, Or32(Or32(Shr32(And32(HalfClampedToZero(texel[0]), 32752), 4),
                                Shl32(And32(HalfClampedToZero(texel[1]), 32752), 7)),
                           Shl32(And32(HalfClampedToZero(texel[2]), 32736), 17)), 0, 0, 0)
      [] format = "R16_SFLOAT" ->
            Packed(2, floatToHalfBits(texel[0], FALSE), 0, 0, 0)
      [] format = "R16G16B16A16_UNORM" ->
            Packed(8, Or32(UnormCode(texel[0], 65535), Shl32(UnormCode(texel[1], 65535), 16)),
                      Or32(UnormCode(texel[2], 65535), Shl32(UnormCode(texel[3], 65535), 16)),
                      0, 0)
      [] format = "A2B10G10R10_UNORM_PACK32" ->
            Packed(4, Or4(UnormCode(texel[0], 1023),
                          Shl32(UnormCode(texel[1], 1023), 10),
                          Shl32(UnormCode(texel[2], 1023), 20),
                          Shl32(UnormCode(texel[3], 3), 30)), 0, 0, 0)
      [] format = "R16G16_UNORM" ->
            Packed(4, Or32(UnormCode(texel[0], 65535), Shl32(UnormCode(texel[1], 65535), 16)),
                      0, 0, 0)
      [] format = "R8G8_UNORM" ->
            Packed(2, Or32(UnormCode(texel[0], 255), Shl32(UnormCode(texel[1], 255), 8)),
                      0, 0, 0)
      [] format = "R16_UNORM" -> Packed(2, UnormCode(texel[0], 65535), 0, 0, 0)
      [] format = "R8_UNORM" -> Packed(1, UnormCode(texel[0], 255), 0, 0, 0)
      [] format = "R16G16B16A16_SNORM" ->
            Packed(8, Or32(And32(SnormCode(texel[0], 32767), 65535),
                           Shl32(SnormCode(texel[1], 32767), 16)),
                      Or32(And32(SnormCode(texel[2], 32767), 65535),
                           Shl32(SnormCode(texel[3], 32767), 16)), 0, 0)
      [] format = "R16G16_SNORM" ->
            Packed(4, Or32(And32(SnormCode(texel[0], 32767), 65535),
                           Shl32(SnormCode(texel[1], 32767), 16)), 0, 0, 0)
      [] format = "R8G8_SNORM" ->
            Packed(2, Or32(And32(SnormCode(texel[0], 127), 255),
                           Shl32(SnormCode(texel[1], 127), 8)), 0, 0, 0)
      [] format = "R16_SNORM" -> Packed(2, SnormCode(texel[0], 32767), 0, 0, 0)
      [] format = "R8_SNORM" -> Packed(1, SnormCode(texel[0], 127), 0, 0, 0)
      [] format \in {"R8G8_SINT", "R8G8_UINT"} ->
            Packed(2, Or32(And32(texel[0].bits, 255), Shl32(And32(texel[1].bits, 255), 8)),
                      0, 0, 0)
      [] format \in {"R16_SINT", "R16_UINT"} -> Packed(2, And32(texel[0].bits, 65535), 0, 0, 0)
      [] format \in {"R8_SINT", "R8_UINT"} -> Packed(1, And32(texel[0].bits, 255), 0, 0, 0)
      [] format = "A2B10G10R10_UINT_PACK32" ->
            Packed(4, Or4(And32(texel[0].bits, 1023),
                          Shl32(And32(texel[1].bits, 1023), 10),
                          Shl32(And32(texel[2].bits, 1023), 20),
                          Shl32(And32(texel[3].bits, 3), 30)), 0, 0, 0)

(***************************************************************************)
(* The read path's format switch (EmitImageRead, lines 751-1070).          *)
(* packed is packed[0..3] after the gather; the result is dst, component   *)
(* index 0..3 -> lane value, typed as the expression moved into it.        *)
(***************************************************************************)
Dst(c0, c1, c2, c3) == (0 :> c0) @@ (1 :> c1) @@ (2 :> c2) @@ (3 :> c3)

\* Variant: the code is divided by the number of codes, 2^n.
UnormFloatByCodeCount(code, max) == Ratio(code, max + 1)

\* SIMD::Float(code) * SIMD::Float(1.0f / max)
UnormFloat(code, max) == Ratio(code, max)

\* Variant: the scaled value is not clamped at -1.
SnormFloatUnclamped(x, max) == Ratio(x, max)

\* Max(SIMD::Float(x) * SIMD::Float(1.0f / max), SIMD::Float(-1.0f))
SnormFloat(x, max) == FloatMax(Ratio(x, max), Float(-1))

\* (p >> k) & SIMD::Int(m), SIMD::Int arithmetic
Field(p, k, m) == And32(IF k = 0 THEN p ELSE Sar32(p, k), m)

\* (p << k) & SIMD::Int(0xFF000000)
Top8(p, k) == And32(IF k = 0 THEN p ELSE Shl32(p, k), -16777216)

\* (p << k) & SIMD::Int(0xFFFF0000)
Top16(p, k) == And32(IF k = 0 THEN p ELSE Shl32(p, k), -65536)

\* Variant: the right shift is logical, so the field is not sign-extended.
SignedFieldLogical(p, k, j) == Shr32(IF k = 0 THEN p ELSE Shl32(p, k), j)

\* (p << k) >> j, SIMD::Int arithmetic
SignedField(p, k, j) == Sar32(IF k = 0 THEN p ELSE Shl32(p, k), j)

\* (As<SIMD::UInt>(p) >> k) & SIMD::UInt(m)
UField(p, k, m) == And32(IF k = 0 THEN p ELSE Shr32(p, k), m)

\* SIMD::Float((p >> k) & SIMD::Int(max)) * SIMD::Float(1.0f / max)
Unorm(p, k, max) == UnormFloat(Field(p, k, max), max)
Snorm8(p, k) == SnormFloat(Top8(p, k), 2130706432)
Snorm16(p, k) == SnormFloat(Top16(p, k), 2147418112)

ReadOnlyFormats ==
    {"D32_SFLOAT", "D32_SFLOAT_S8_UINT", "D16_UNORM", "S8_UINT",
     "A8B8G8R8_SNORM_PACK32", "A8B8G8R8_UNORM_PACK32", "R8G8B8A8_SRGB",
     "A8B8G8R8_SRGB_PACK32", "B8G8R8A8_UNORM", "B8G8R8A8_SRGB",
     "A8B8G8R8_UINT_PACK32", "A8B8G8R8_SINT_PACK32",
     "A2R10G10B10_UINT_PACK32", "A2R10G10B10_UNORM_PACK32",
     "R4G4B4A4_UNORM_PACK16", "B4G4R4A4_UNORM_PACK16",
     "A4R4G4B4_UNORM_PACK16_EXT", "A4B4G4R4_UNORM_PACK16_EXT",
     "R5G6B5_UNORM_PACK16", "B5G6R5_UNORM_PACK16", "R5G5B5A1_UNORM_PACK16",
     "B5G5R5A1_UNORM_PACK16", "A1R5G5B5_UNORM_PACK16"}

\* Variant: the read switch has the attachment-only cases and no other.
ReadFormatsAttachmentOnly == ReadOnlyFormats

ReadFormats == WriteFormats \cup ReadOnlyFormats

Float0001(c0) == Dst(c0, Float(0), Float(0), Float(1))
Int0001(c0) == Dst(c0, SInt(0), SInt(0), SInt(1))
\* Variant: the missing alpha channel is filled with 0.
UInt0001AlphaZero(c0) == Dst(c0, UInt(0), UInt(0), UInt(0))

UInt0001(c0) == Dst(c0, UInt(0), UInt(0), UInt(1))

DecodeWide(format, packed) ==
    LET p0 == packed[0]
        p1 == packed[1]
    IN  CASE format \in {"R32G32B32A32_SFLOAT", "R32G32B32A32_SINT", "R32G32B32A32_UINT"} ->
                Dst(SInt(p0), SInt(p1), SInt(packed[2]), SInt(packed[3]))
          [] format \in {"R32_SINT", "R32_UINT"} -> Int0001(SInt(p0))
          [] format \in {"R32_SFLOAT", "D32_SFLOAT", "D32_SFLOAT_S8_UINT"} -> Float0001(SInt(p0))
          [] format = "D16_UNORM" -> Float0001(Unorm(p0, 0, 65535))
          [] format = "R16G16B16A16_UNORM" ->
                Dst(Unorm(p0, 0, 65535), Unorm(p0, 16, 65535), Unorm(p1, 0, 65535), Unorm(p1, 16, 65535))
          [] format = "R16G16B16A16_SNORM" ->
                Dst(Snorm16(p0, 16), Snorm16(p0, 0), Snorm16(p1, 16), Snorm16(p1, 0))
          [] format = "R16G16B16A16_SINT" ->
                Dst(SInt(SignedField(p0, 16, 16)), SInt(Sar32(p0, 16)),
                    SInt(SignedField(p1, 16, 16)), SInt(Sar32(p1, 16)))
          [] format = "R16G16B16A16_UINT" ->
                Dst(SInt(Field(p0, 0, 65535)), SInt(Field(p0, 16, 65535)),
                    SInt(Field(p1, 0, 65535)), SInt(Field(p1, 16, 65535)))
          [] format = "R16G16B16A16_SFLOAT" ->
                Dst(halfToFloatBits(And32(p0, 65535)), halfToFloatBits(Shr32(And32(p0, -65536), 16)),
                    halfToFloatBits(And32(p1, 65535)), halfToFloatBits(Shr32(And32(p1, -65536), 16)))
          [] format = "R16_SFLOAT" -> Float0001(halfToFloatBits(And32(p0, 65535)))
          [] format = "R16_UNORM" -> Float0001(Unorm(p0, 0, 65535))
          [] format = "R16_SNORM" -> Float0001(Snorm16(p0, 16))
          [] format = "R16_UINT" -> UInt0001(SInt(Field(p0, 0, 65535)))
          [] format = "R16_SINT" -> Int0001(SInt(SignedField(p0, 16, 16)))
          [] format = "R16G16_SFLOAT" ->
                Dst(halfToFloatBits(And32(p0, 65535)), halfToFloatBits(Shr32(And32(p0, -65536), 16)),
                    Float(0), Float(1))
          [] format = "R16G16_UNORM" ->
                Dst(Unorm(p0, 0, 65535), UnormFloat(Shr32(p0, 16), 65535), Float(0), Float(1))
          [] format = "R16G16_SNORM" -> Dst(Snorm16(p0, 16), Snorm16(p0, 0), Float(0), Float(1))
          [] format = "R16G16_UINT" ->
                Dst(SInt(Field(p0, 0, 65535)), SInt(Field(p0, 16, 65535)), UInt(0), UInt(1))
          [] format = "R16G16_SINT" ->
                Dst(SInt(SignedField(p0, 16, 16)), SInt(Sar32(p0, 16)), SInt(0), SInt(1))
          [] format \in {"R32G32_SINT", "R32G32_UINT"} -> Dst(SInt(p0), SInt(p1), SInt(0), SInt(1))
          [] format = "R32G32_SFLOAT" -> Dst(SInt(p0), SInt(p1), Float(0), Float(1))
          [] format = "A2B10G10R10_UINT_PACK32" ->
                Dst(SInt(Field(p0, 0, 1023)), SInt(Field(p0, 10, 1023)),
                    SInt(Field(p0, 20, 1023)), SInt(Field(p0, 30, 3)))
          [] format = "A2R10G10B10_UINT_PACK32" ->
                Dst(SInt(Field(p0, 20, 1023)), SInt(Field(p0, 10, 1023)),
                    SInt(Field(p0, 0, 1023)), SInt(Field(p0, 30, 3)))
          [] format = "A2B10G10R10_UNORM_PACK32" ->
                Dst(Unorm(p0, 0, 1023), Unorm(p0, 10, 1023), Unorm(p0, 20, 1023),
                    Unorm(p0, 30, 3))
          [] format = "A2R10G10B10_UNORM_PACK32" ->
                Dst(Unorm(p0, 20, 1023), Unorm(p0, 10, 1023), Unorm(p0, 0, 1023),
                    Unorm(p0, 30, 3))
          [] format = "B10G11R11_UFLOAT_PACK32" ->
                Dst(halfToFloatBits(And32(Shl32(p0, 4), 32752)),
                    halfToFloatBits(Field(p0, 7, 32752)),
                    halfToFloatBits(Field(p0, 17, 32736)), Float(1))

ByteFormats ==
    {"R8G8B8A8_SNORM", "A8B8G8R8_SNORM_PACK32", "R8G8B8A8_UNORM", "A8B8G8R8_UNORM_PACK32",
     "R8G8B8A8_SRGB", "A8B8G8R8_SRGB_PACK32", "B8G8R8A8_UNORM", "B8G8R8A8_SRGB",
     "R8G8B8A8_UINT", "A8B8G8R8_UINT_PACK32", "R8G8B8A8_SINT", "A8B8G8R8_SINT_PACK32",
     "R8_UNORM", "R8_SNORM", "R8_UINT", "S8_UINT", "R8_SINT",
     "R8G8_UNORM", "R8G8_SNORM", "R8G8_UINT", "R8G8_SINT",
     "R4G4B4A4_UNORM_PACK16", "B4G4R4A4_UNORM_PACK16",
     "A4R4G4B4_UNORM_PACK16_EXT", "A4B4G4R4_UNORM_PACK16_EXT",
     "R5G6B5_UNORM_PACK16", "B5G6R5_UNORM_PACK16", "R5G5B5A1_UNORM_PACK16",
     "B5G5R5A1_UNORM_PACK16", "A1R5G5B5_UNORM_PACK16"}

DecodeBytes(format, packed) ==
    LET p0 == packed[0]
    IN  CASE format \in {"R8G8B8A8_SNORM", "A8B8G8R8_SNORM_PACK32"} ->
                Dst(Snorm8(p0, 24), Snorm8(p0, 16), Snorm8(p0, 8), Snorm8(p0, 0))
          [] format \in {"R8G8B8A8_UNORM", "A8B8G8R8_UNORM_PACK32"} ->
                Dst(Unorm(p0, 0, 255), Unorm(p0, 8, 255), Unorm(p0, 16, 255), Unorm(p0, 24, 255))
          [] format \in {"R8G8B8A8_SRGB", "A8B8G8R8_SRGB_PACK32"} ->
                Dst(sRGBtoLinear(Unorm(p0, 0, 255)), sRGBtoLinear(Unorm(p0, 8, 255)),
                    sRGBtoLinear(Unorm(p0, 16, 255)), Unorm(p0, 24, 255))
          [] format = "B8G8R8A8_UNORM" ->
                Dst(Unorm(p0, 16, 255), Unorm(p0, 8, 255), Unorm(p0, 0, 255), Unorm(p0, 24, 255))
          [] format = "B8G8R8A8_SRGB" ->
                Dst(sRGBtoLinear(Unorm(p0, 16, 255)), sRGBtoLinear(Unorm(p0, 8, 255)),
                    sRGBtoLinear(Unorm(p0, 0, 255)), Unorm(p0, 24, 255))
          [] format \in {"R8G8B8A8_UINT", "A8B8G8R8_UINT_PACK32"} ->
                Dst(UInt(UField(p0, 0, 255)), UInt(UField(p0, 8, 255)),
                    UInt(UField(p0, 16, 255)), UInt(UField(p0, 24, 255)))
          [] format \in {"R8G8B8A8_SINT", "A8B8G8R8_SINT_PACK32"} ->
                Dst(SInt(SignedField(p0, 24, 24)), SInt(SignedField(p0, 16, 24)),
                    SInt(SignedField(p0, 8, 24)), SInt(Sar32(p0, 24)))
          [] format = "R8_UNORM" -> Float0001(Unorm(p0, 0, 255))
          [] format = "R8_SNORM" -> Float0001(Snorm8(p0, 24))
          [] format \in {"R8_UINT", "S8_UINT"} -> UInt0001(UInt(UField(p0, 0, 255)))
          [] format = "R8_SINT" -> Int0001(SInt(SignedField(p0, 24, 24)))
          [] format = "R8G8_UNORM" -> Dst(Unorm(p0, 0, 255), Unorm(p0, 8, 255), Float(0), Float(1))
          [] format = "R8G8_SNORM" -> Dst(Snorm8(p0, 24), Snorm8(p0, 16), Float(0), Float(1))
          [] format = "R8G8_UINT" ->
                Dst(UInt(UField(p0, 0, 255)), UInt(UField(p0, 8, 255)), UInt(0), UInt(1))
          [] format = "R8G8_SINT" ->
                Dst(SInt(SignedField(p0, 24, 24)), SInt(SignedField(p0, 16, 24)), SInt(0), SInt(1))
          [] format = "R4G4B4A4_UNORM_PACK16" ->
                Dst(Unorm(p0, 12, 15), Unorm(p0, 8, 15), Unorm(p0, 4, 15), Unorm(p0, 0, 15))
          [] format = "B4G4R4A4_UNORM_PACK16" ->
                Dst(Unorm(p0, 4, 15), Unorm(p0, 8, 15), Unorm(p0, 12, 15), Unorm(p0, 0, 15))
          [] format = "A4R4G4B4_UNORM_PACK16_EXT" ->
                Dst(Unorm(p0, 8, 15), Unorm(p0, 4, 15), Unorm(p0, 0, 15), Unorm(p0, 12, 15))
          [] format = "A4B4G4R4_UNORM_PACK16_EXT" ->
                Dst(Unorm(p0, 0, 15), Unorm(p0, 4, 15), Unorm(p0, 8, 15), Unorm(p0, 12, 15))
          [] format = "R5G6B5_UNORM_PACK16" ->
                Dst(Unorm(p0, 11, 31), Unorm(p0, 5, 63), Unorm(p0, 0, 31), Float(1))
          [] format = "B5G6R5_UNORM_PACK16" ->
                Dst(Unorm(p0, 0, 31), Unorm(p0, 5, 63), Unorm(p0, 11, 31), Float(1))
          [] format = "R5G5B5A1_UNORM_PACK16" ->
                Dst(Unorm(p0, 11, 31), Unorm(p0, 6, 31), Unorm(p0, 1, 31), Float(Field(p0, 0, 1)))
          [] format = "B5G5R5A1_UNORM_PACK16" ->
                Dst(Unorm(p0, 1, 31), Unorm(p0, 6, 31), Unorm(p0, 11, 31), Float(Field(p0, 0, 1)))
          [] format = "A1R5G5B5_UNORM_PACK16" ->
                Dst(Unorm(p0, 10, 31), Unorm(p0, 5, 31), Unorm(p0, 0, 31), Float(Field(p0, 15, 1)))

\* switch(vkFormat) of EmitImageRead
DecodeTexel(format, packed) ==
    IF format \in ByteFormats THEN DecodeBytes(format, packed) ELSE DecodeWide(format, packed)

(***************************************************************************)
(* Texels in memory.  Image memory is bytes, little-endian.  Store and     *)
(* Load of a SIMD::Int lane move 4 bytes; the per-lane scalar paths move   *)
(* a Short (2 bytes, sign-extended by Int(Short) on the way back) or a     *)
(* Byte (1 byte, zero-extended by Int(Byte)).                              *)
(***************************************************************************)
ByteOf(x, k) == (x \div Pow2(8 * k)) % 256

WordBytes(x) == <<ByteOf(x, 0), ByteOf(x, 1), ByteOf(x, 2), ByteOf(x, 3)>>
BytesWord(b) ==
    b[1] + 256 * b[2] + 65536 * b[3] + 16777216 * (IF b[4] >= 128 THEN b[4] - 256 ELSE b[4])

\* Short(Extract(packed[0], i)) and Int(*Pointer<Short>(...))
ShortBytes(x) == <<ByteOf(x, 0), ByteOf(x, 1)>>
IntOfShort(b) ==
    LET s == b[1] + 256 * b[2]
    IN  IF s >= 32768 THEN s - 65536 ELSE s

\* Byte(Extract(packed[0], i)) and Int(*Pointer<Byte>(...))
ByteBytes(x) == <<ByteOf(x, 0)>>
IntOfByte(b) == b[1]

\* The texelSize bytes one lane's scatter puts at its offset (lines 1300-1335).
TexelBytes(texelSize, packed) ==
    CASE texelSize = 1 -> ByteBytes(packed[0])
      [] texelSize = 2 -> ShortBytes(packed[0])
      [] texelSize = 4 -> WordBytes(packed[0])
      [] texelSize = 8 -> WordBytes(packed[0]) \o WordBytes(packed[1])
      [] texelSize = 16 -> WordBytes(packed[0]) \o WordBytes(packed[1])
                           \o WordBytes(packed[2]) \o WordBytes(packed[3])

\* A word of packed[] the gather never assigns. The format switch does
\* arithmetic on every word it reads, which is undefined on this value.
Unassigned == "unassigned"

\* packed[0..3] of one lane after the gather of its in-bounds texel (lines 711-744).
GatherPacked(texelSize, bytes) ==
    LET word(i) == BytesWord(SubSeq(bytes, 4 * i + 1, 4 * i + 4))
    IN  CASE texelSize = 1 -> Dst(IntOfByte(bytes), Unassigned, Unassigned, Unassigned)
          [] texelSize = 2 -> Dst(IntOfShort(bytes), Unassigned, Unassigned, Unassigned)
          [] texelSize = 4 -> Dst(word(0), Unassigned, Unassigned, Unassigned)
          [] texelSize = 8 -> Dst(word(0), word(1), Unassigned, Unassigned)
          [] texelSize = 16 -> Dst(word(0), word(1), word(2), word(3))

\* vk::Format::bytes()
FormatBytes(format) ==
    CASE format \in {"R32G32B32A32_SFLOAT", "R32G32B32A32_SINT", "R32G32B32A32_UINT"} -> 16
      [] format \in {"R16G16B16A16_SFLOAT", "R16G16B16A16_SINT", "R16G16B16A16_UINT",
                     "R16G16B16A16_UNORM", "R16G16B16A16_SNORM",
                     "R32G32_SFLOAT", "R32G32_SINT", "R32G32_UINT"} -> 8
      [] format \in {"R64_SFLOAT"} -> 8
      [] format \in {"R8_UNORM", "R8_SNORM", "R8_UINT", "R8_SINT", "S8_UINT"} -> 1
      [] format = "R8G8B8_UNORM" -> 3
      [] format = "UNDEFINED" -> 0
      [] format \in {"R8G8_UNORM", "R8G8_SNORM", "R8G8_UINT", "R8G8_SINT",
                     "R16_SFLOAT", "R16_UNORM", "R16_SNORM", "R16_UINT", "R16_SINT",
                     "D16_UNORM", "R4G4B4A4_UNORM_PACK16", "B4G4R4A4_UNORM_PACK16",
                     "A4R4G4B4_UNORM_PACK16_EXT", "A4B4G4R4_UNORM_PACK16_EXT",
                     "R5G6B5_UNORM_PACK16", "B5G6R5_UNORM_PACK16", "R5G5B5A1_UNORM_PACK16",
                     "B5G5R5A1_UNORM_PACK16", "A1R5G5B5_UNORM_PACK16"} -> 2
      [] OTHER -> 4

\* Variant: the depth aspect is used whatever the Sampled Type is.
UseStencilAspectNever(format, sampledType) == FALSE

\* useStencilAspect and the format the read decodes with (lines 683-689)
UseStencilAspect(format, sampledType) ==
    format = "D32_SFLOAT_S8_UINT" /\ sampledType = "OpTypeInt"
\* Variant: the stencil aspect keeps the depth-stencil format's unpack rule.
ReadFormatDepthOnly(format, sampledType) == format

ReadFormat(format, sampledType) ==
    IF UseStencilAspect(format, sampledType) THEN "S8_UINT" ELSE format

(***************************************************************************)
(* What a format name says about its texels (vk::Format): numeric class,   *)
(* number of stored components and width in bits of each component field.  *)
(***************************************************************************)
SintFormats ==
    {"R32G32B32A32_SINT", "R32_SINT", "R8G8B8A8_SINT", "R16G16B16A16_SINT", "R32G32_SINT",
     "R16G16_SINT", "R8G8_SINT", "R16_SINT", "R8_SINT", "A8B8G8R8_SINT_PACK32"}
UintFormats ==
    {"R32G32B32A32_UINT", "R32_UINT", "R8G8B8A8_UINT", "R16G16B16A16_UINT", "R32G32_UINT",
     "R16G16_UINT", "R8G8_UINT", "R16_UINT", "R8_UINT", "A2B10G10R10_UINT_PACK32",
     "A8B8G8R8_UINT_PACK32", "A2R10G10B10_UINT_PACK32", "S8_UINT"}
UnormWriteFormats ==
    {"R8G8B8A8_UNORM", "R16G16B16A16_UNORM", "A2B10G10R10_UNORM_PACK32", "R16G16_UNORM",
     "R8G8_UNORM", "R16_UNORM", "R8_UNORM"}
SnormWriteFormats ==
    {"R8G8B8A8_SNORM", "R16G16B16A16_SNORM", "R16G16_SNORM", "R8G8_SNORM", "R16_SNORM",
     "R8_SNORM"}
HalfFormats == {"R16G16B16A16_SFLOAT", "R16G16_SFLOAT", "R16_SFLOAT", "B10G11R11_UFLOAT_PACK32"}

componentCount(format) ==
    CASE format \in {"R32_SFLOAT", "R32_SINT", "R32_UINT", "R16_SFLOAT", "R16_UNORM",
                     "R16_SNORM", "R16_SINT", "R16_UINT", "R8_UNORM", "R8_SNORM", "R8_SINT",
                     "R8_UINT", "S8_UINT", "D16_UNORM", "D32_SFLOAT",
                     "D32_SFLOAT_S8_UINT"} -> 1
      [] format \in {"R32G32_SFLOAT", "R32G32_SINT", "R32G32_UINT", "R16G16_SFLOAT",
                     "R16G16_SINT", "R16G16_UINT", "R16G16_UNORM", "R16G16_SNORM",
                     "R8G8_UNORM", "R8G8_SNORM", "R8G8_SINT", "R8G8_UINT"} -> 2
      [] format \in {"B10G11R11_UFLOAT_PACK32", "R5G6B5_UNORM_PACK16",
                     "B5G6R5_UNORM_PACK16"} -> 3
      [] OTHER -> 4

\* Width in bits of component c of an integer or normalized format of the write path.
FieldBits(format, c) ==
    CASE format \in {"A2B10G10R10_UINT_PACK32", "A2B10G10R10_UNORM_PACK32"} ->
            IF c = 3 THEN 2 ELSE 10
      [] format \in {"R32G32B32A32_SINT", "R32G32B32A32_UINT", "R32G32_SINT", "R32G32_UINT",
                     "R32_SINT", "R32_UINT"} -> 32
      [] format \in {"R16G16B16A16_SINT", "R16G16B16A16_UINT", "R16G16B16A16_UNORM",
                     "R16G16B16A16_SNORM", "R16G16_SINT", "R16G16_UINT", "R16G16_UNORM",
                     "R16G16_SNORM", "R16_SINT", "R16_UINT", "R16_UNORM", "R16_SNORM"} -> 16
      [] OTHER -> 8

Components(format) == 0 .. (componentCount(format) - 1)

\* Smallest and largest two's-complement value of an n-bit field, 2 <= n <= 32.
MinSigned(n) == (0 - Pow2(n - 2)) * 2
MaxSigned(n) == (Pow2(n - 2) - 1) * 2 + 1

\* The 32-bit pattern of the unsigned value 2^n - 1 - s, n <= 32, and of 2^(n-1) + s.
UnsignedFromTop(n, s) == IF n = 32 THEN (0 - 1) - s ELSE (Pow2(n) - 1) - s
UnsignedFromMid(n, s) == IF n = 32 THEN MinSigned(32) + s ELSE Pow2(n - 1) + s

\* Is the lane pattern x a value of an n-bit field of the given class?
InField(class, n, x) ==
    IF class = "SINT" THEN MinSigned(n) <= x /\ x <= MaxSigned(n)
    ELSE n = 32 \/ (0 <= x /\ x <= Pow2(n) - 1)

FormatClass(format) ==
    CASE format \in SintFormats -> "SINT"
      [] format \in UintFormats -> "UINT"
      [] format \in UnormWriteFormats -> "UNORM"
      [] format \in SnormWriteFormats -> "SNORM"
      [] format \in HalfFormats -> "HALF"
      [] OTHER -> "FLOAT"

(***************************************************************************)
(* One texel through the write path and back through the read path: the   *)
(* texel operand of an OpImageWrite, the bytes its scatter leaves in the   *)
(* image, and the result of an OpImageRead of those bytes; or an input     *)
(* attachment whose bytes rendering left behind, read with OpImageRead.    *)
(***************************************************************************)
IntSpan == 1
NormBits == 3

NormDenominator == Pow2(NormBits)

\* Channel values an OpImageWrite is given: the field's landmarks and their
\* neighbours, and the two patterns just outside the field.
SintValues(n) ==
    UNION {{MinSigned(n) + s, MaxSigned(n) - s, s, 0 - s} : s \in 0 .. IntSpan}
    \cup (IF n = 32 THEN {} ELSE {MinSigned(n) - 1, MaxSigned(n) + 1})
UintValues(n) ==
    {x \in UNION {{s, MaxSigned(n) - s, UnsignedFromMid(n, s), UnsignedFromTop(n, s)} :
                     s \in 0 .. IntSpan} : InField("UINT", n, x)}
    \cup (IF n = 32 THEN {} ELSE {Pow2(n), 0 - 1})
UnormValues == {Ratio(k, NormDenominator) : k \in (0 - 1) .. (NormDenominator + 1)}
SnormValues ==
    {Ratio(k, NormDenominator) : k \in (0 - NormDenominator - 1) .. (NormDenominator + 1)}

Foreground(format, c) ==
    LET class == FormatClass(format)
        HalfPatterns == {0, 1, 15360, 15376, 15391, 48128, 31743, 31744}
        FloatPatterns == {0, 1065353216, 0 - 1082130432, 2139095039}
    IN  CASE class = "SINT" -> {SInt(x) : x \in SintValues(FieldBits(format, c))}
          [] class = "UINT" -> {UInt(x) : x \in UintValues(FieldBits(format, c))}
          [] class = "UNORM" -> UnormValues
          [] class = "SNORM" -> SnormValues
          [] class = "HALF" -> {HalfFloat(h) : h \in HalfPatterns}
          [] OTHER -> {[type |-> "Float", bits |-> x] : x \in FloatPatterns}

\* What the other components of the texel operand hold: zero, the field's
\* all-ones value, or a value outside the field.
Background(format, c, j) ==
    LET class == FormatClass(format)
        n == FieldBits(format, c)
    IN  CASE class = "SINT" ->
                SInt(IF j = 1 THEN 0 ELSE IF j = 2 THEN 0 - 1
                     ELSE IF n = 32 THEN MinSigned(32) ELSE Pow2(n))
          [] class = "UINT" ->
                UInt(IF j = 1 THEN 0 ELSE IF j = 2 THEN UnsignedFromTop(n, 0)
                     ELSE IF n = 32 THEN MinSigned(32) ELSE Pow2(n))
          [] class = "UNORM" -> Float(j - 1)
          [] class = "SNORM" -> Float(IF j = 3 THEN 1 ELSE j - 3)
          [] class = "HALF" -> HalfFloat(IF j = 1 THEN 0 ELSE IF j = 2 THEN 15360 ELSE 48128)
          [] OTHER -> [type |-> "Float", bits |-> IF j = 1 THEN 0 ELSE IF j = 2 THEN 1065353216
                                                  ELSE 0 - 1082130432]

\* The texel operand (1.0, 0.5, 0.0, 1.0)
OpaqueHalfGreen == (0 :> Float(1)) @@ (1 :> Ratio(1, 2)) @@ (2 :> Float(0)) @@ (3 :> Float(1))

TexelOperands(format) ==
    UNION {{[c \in 0 .. 3 |-> IF c = k THEN a ELSE Background(format, c, j)] :
                a \in Foreground(format, k), j \in 1 .. 3} : k \in Components(format)}
    \cup (IF format = "R8G8B8A8_UNORM" THEN {OpaqueHalfGreen} ELSE {})

AttachmentBytes(size) == [1 .. size -> {0, 10, 11, 90, 165, 188, 255}]

SampledTypes(format) ==
    IF format = "D32_SFLOAT_S8_UINT" THEN {"OpTypeFloat", "OpTypeInt"}
    ELSE IF format \in SintFormats \cup UintFormats THEN {"OpTypeInt"}
    ELSE {"OpTypeFloat"}

\* The instruction's image: a storage image (imageFormat is word 8 of its
\* type) about to be written or read, or an input attachment (dim
\* SubpassData, format from inputAttachmentFormats) about to be read.  Among
\* them are formats without a case: image formats SpirvFormatToVulkanFormat
\* does not know, and attachment formats the read switch does not know (one
\* of them with a texel size the gather does not know either).  A storage
\* image of a normalized or integer format may also hold a texel the shader
\* did not write itself: the landmarks of a two's-complement byte in two
\* neighbouring bytes, the rest of the texel filled with one byte.
InitCodec ==
    LET UnknownImageFormats == {"Unknown", "R64ui"}
        CodeBytes == {0, 1, 127, 128, 129, 255}
        FillBytes == {0, 128, 255}
        StoredTexel(size, p, a, b, g) ==
            [k \in 1 .. size |-> IF k = p THEN a ELSE IF k = p + 1 THEN b ELSE g]
        UnknownAttachmentFormats == {"R64_SFLOAT", "R8G8B8_UNORM"}
        Input(phase, dim, imageFormat, attachment, sampledType, texel, stored) ==
            [phase |-> phase, dim |-> dim, imageFormat |-> imageFormat,
             attachment |-> attachment, format |-> "UNDEFINED", failure |-> "none",
             sampledType |-> sampledType, written |-> phase = "texel",
             texel |-> texel, stored |-> stored, dst |-> <<>>, restored |-> <<>>]
    IN
    /\ \/ \E f \in SpirvImageFormats :
             \E st \in SampledTypes(SpirvFormatToVulkanFormat(f)),
                t \in TexelOperands(SpirvFormatToVulkanFormat(f)) :
                codec = Input("texel", "2D", f, "UNDEFINED", st, t, <<>>)
       \/ \E f \in ReadOnlyFormats :
             \E st \in SampledTypes(f) :
                \E b \in AttachmentBytes(FormatBytes(ReadFormat(f, st))) :
                   codec = Input("stored", "SubpassData", "Unknown", f, st, <<>>, b)
       \/ \E f \in SpirvImageFormats :
             LET format == SpirvFormatToVulkanFormat(f)
             IN  /\ FormatClass(format) \in {"UNORM", "SNORM", "SINT", "UINT"}
                 /\ \E st \in SampledTypes(format), p \in 1 .. FormatBytes(format),
                        a \in CodeBytes, b \in CodeBytes, g \in FillBytes :
                        codec = Input("stored", "2D", f, "UNDEFINED", st, <<>>,
                                      StoredTexel(FormatBytes(format), p, a, b, g))
       \/ \E f \in UnknownImageFormats :
             \/ codec = Input("texel", "2D", f, "UNDEFINED", "OpTypeFloat", OpaqueHalfGreen, <<>>)
             \/ codec = Input("stored", "2D", f, "UNDEFINED", "OpTypeFloat", <<>>,
                              [k \in 1 .. 8 |-> 0])
       \/ \E f \in UnknownAttachmentFormats :
             codec = Input("stored", "SubpassData", "Unknown", f, "OpTypeFloat", <<>>,
                           [k \in 1 .. 8 |-> 0])
    /\ CacheIdle /\ ConcIdle /\ ImageIdle /\ SampleIdle /\ QueryIdle


\* The bytes an active, in-bounds lane of EmitImageWrite leaves at its offset.
WriteLane(format, texel) ==
    LET e == EncodeTexel(format, texel)
    IN  TexelBytes(e.texelSize, e.packed)

\* The result of an active lane of EmitImageRead whose texel is those bytes.
ReadLane(format, sampledType, bytes) ==
    LET vkFormat == ReadFormat(format, sampledType)
    IN  DecodeTexel(vkFormat, GatherPacked(FormatBytes(vkFormat), bytes))

\* EmitImageWrite on the texel operand: the format switch, then the scatter.
\* The switch's default case is UNSUPPORTED.
WriteTexel ==
    /\ codec.phase = "texel"
    /\ LET format == SpirvFormatToVulkanFormat(codec.imageFormat)
       IN  codec' = IF format \notin WriteFormats
                    THEN [codec EXCEPT !.phase = "write failed", !.format = format,
                                       !.failure = "UNSUPPORTED"]
                    ELSE [codec EXCEPT !.phase = "stored", !.format = format,
                                       !.stored = WriteLane(format, codec.texel)]
    /\ UNCHANGED <<cacheVars, concVars, imageVars, sampleVars, queryVars>>

\* EmitImageRead of the stored texel: the format (lines 677-689), the gather
\* by texel size (UNREACHABLE for a size it has no branch for, line 746), then
\* the format switch (default: UNSUPPORTED, line 1068).  An image format
\* without a case has reached UNSUPPORTED inside SpirvFormatToVulkanFormat.
ReadTexel ==
    /\ codec.phase = "stored"
    /\ LET format == IF codec.dim = "SubpassData" THEN codec.attachment
                      ELSE SpirvFormatToVulkanFormat(codec.imageFormat)
           vkFormat == ReadFormat(format, codec.sampledType)
           texelSize == FormatBytes(vkFormat)
       IN  codec' =
             IF codec.dim # "SubpassData" /\ format = "UNDEFINED"
             THEN [codec EXCEPT !.phase = "read failed", !.format = format,
                                !.failure = "UNSUPPORTED"]
             ELSE IF texelSize \notin {1, 2, 4, 8, 16}
             THEN [codec EXCEPT !.phase = "read failed", !.format = format,
                                !.failure = "UNREACHABLE"]
             ELSE IF vkFormat \notin ReadFormats
             THEN [codec EXCEPT !.phase = "read failed", !.format = format,
                                !.failure = "UNSUPPORTED"]
             ELSE [codec EXCEPT !.phase = "decoded", !.format = format,
                                !.dst = ReadLane(format, codec.sampledType, codec.stored)]
    /\ UNCHANGED <<cacheVars, concVars, imageVars, sampleVars, queryVars>>

\* EmitImageWrite whose texel operand is the result of the EmitImageRead of
\* a texel the shader had not written: the texel is encoded again.
WriteBack ==
    /\ codec.phase = "decoded"
    /\ ~codec.written
    /\ codec.dim = "2D"
    /\ codec.format \in WriteFormats
    /\ codec' = [codec EXCEPT !.phase = "written back", !.texel = codec.dst,
                              !.restored = WriteLane(codec.format, codec.dst)]
    /\ UNCHANGED <<cacheVars, concVars, imageVars, sampleVars, queryVars>>

NextCodec == WriteTexel \/ ReadTexel \/ WriteBack

SpecCodec == InitCodec /\ [][NextCodec]_vars


(***************************************************************************)
(* Properties of the texel round trip.                                     *)
(***************************************************************************)
Abs(x) == IF x < 0 THEN 0 - x ELSE x

\* |d - v| <= 1 / (k * max), for floats d and v with exact rational values
Within(d, v, k, max) ==
    Abs(d.num * v.den - v.num * d.den) <= (d.den * v.den) \div (k * max)

\* The largest code of an n-bit normalized field.
MaxCode(class, n) == IF class = "UNORM" THEN Pow2(n) - 1 ELSE Pow2(n - 1) - 1

RoundTripped == codec.phase = "decoded" /\ codec.written

\* C8: for every integer format of the write path (SINT, UINT and
\* A2B10G10R10_UINT) and every channel value representable in its field,
\* reading back the texel that the write stored reproduces the value exactly
\* in every stored channel, whatever the other channels of the operand hold.
C8_IntegerRoundTrip ==
    (RoundTripped /\ FormatClass(codec.format) \in {"SINT", "UINT"})
        => \A c \in Components(codec.format) :
              InField(FormatClass(codec.format), FieldBits(codec.format, c), codec.texel[c].bits)
                  => codec.dst[c].bits = codec.texel[c].bits

\* A negative 8-bit value beside a neighbour that does not fit its field has
\* made the round trip through R8G8B8A8_SINT.
C8_Witness ==
    /\ RoundTripped
    /\ codec.format = "R8G8B8A8_SINT"
    /\ codec.texel[1].bits = 0 - 128
    /\ codec.texel[0].bits = 256
    /\ codec.dst[1].bits = 0 - 128

\* C9: for every UNORM and SNORM format of the write path and every stored
\* channel: a value inside [0,1] (UNORM) or [-1,1] (SNORM) comes back within
\* one quantization step 1/(2^n - 1) (UNORM) or 1/(2^(n-1) - 1) (SNORM), and
\* is the multiple of the step nearest to it (scale, round to nearest, pack);
\* a value below the range comes back as the low end and a value above it as 1.
C9_NormalizedRoundTrip ==
    (RoundTripped /\ FormatClass(codec.format) \in {"UNORM", "SNORM"})
        => \A c \in Components(codec.format) :
              LET class == FormatClass(codec.format)
                  max == MaxCode(class, FieldBits(codec.format, c))
                  low == IF class = "UNORM" THEN Float(0) ELSE Float(0 - 1)
                  v == codec.texel[c]
                  d == codec.dst[c]
              IN  /\ d.type = "Float"
                  /\ FloatLess(v, low) => d = low
                  /\ FloatLess(Float(1), v) => d = Float(1)
                  /\ (~FloatLess(v, low) /\ ~FloatLess(Float(1), v))
                        => Within(d, v, 1, max) /\ Within(d, v, 2, max)

\* One half, a tie between the codes 127 and 128, has made the round trip
\* through R8_UNORM beside a neighbour above the range, and came back as 128/255.
C9_Witness ==
    /\ RoundTripped
    /\ codec.format = "R8G8_UNORM"
    /\ codec.texel[0] = Ratio(1, 2)
    /\ codec.texel[1] = Float(2)
    /\ codec.dst[0] = Ratio(128, 255)
    /\ codec.dst[1] = Float(1)

\* C10: every read produces exactly four channels, and for a format that
\* stores fewer than four, the missing alpha channel is 1 and every other
\* missing channel is 0: integer constants for SINT, UINT and stencil formats,
\* float constants 0.0 and 1.0 for float, normalized and depth formats.
C10_PaddingLaw ==
    codec.phase = "decoded"
        => LET vkFormat == ReadFormat(codec.format, codec.sampledType)
           IN  /\ DOMAIN codec.dst = 0 .. 3
               /\ \A c \in componentCount(vkFormat) .. 3 :
                     LET want == IF c = 3 THEN 1 ELSE 0
                     IN  IF vkFormat \in SintFormats \cup UintFormats
                         THEN /\ codec.dst[c].type \in {"Int", "UInt"}
                              /\ codec.dst[c].bits = want
                         ELSE codec.dst[c] = Float(want)

\* The stencil aspect of a depth-stencil attachment has been read: one stored
\* channel and integer padding 0, 0, 1.
C10_Witness ==
    /\ codec.phase = "decoded"
    /\ codec.format = "D32_SFLOAT_S8_UINT"
    /\ codec.sampledType = "OpTypeInt"
    /\ codec.dst[0] = UInt(165)
    /\ codec.dst[1] = UInt(0) /\ codec.dst[2] = UInt(0) /\ codec.dst[3] = UInt(1)

\* C11: writing (1.0, 0.5, 0.0, 1.0) to a texel of an R8G8B8A8_UNORM image
\* stores the codes R = 255, G = 128, B = 0, A = 255 (0.5 * 255 = 127.5 is
\* rounded to the nearest even code), and reading the texel back yields
\* (255/255, 128/255, 0/255, 255/255).
C11_OpaqueHalfGreen ==
    (RoundTripped /\ codec.format = "R8G8B8A8_UNORM" /\ codec.texel = OpaqueHalfGreen)
        => /\ codec.stored = <<255, 128, 0, 255>>
           /\ codec.dst = Dst(Ratio(255, 255), Ratio(128, 255), Ratio(0, 255), Ratio(255, 255))

\* The texel (1.0, 0.5, 0.0, 1.0) has been written to R8G8B8A8_UNORM and read
\* back, and its green byte is 128.
C11_Witness ==
    /\ RoundTripped
    /\ codec.format = "R8G8B8A8_UNORM"
    /\ codec.texel = OpaqueHalfGreen
    /\ codec.stored[2] = 128
    /\ codec.dst[1] = Ratio(128, 255)

\* C11 as stated: the stored codes are R = 255, G = 127, B = 0, A = 255 and
\* the texel reads back as (255/255, 127/255, 0/255, 255/255).
C11_GreenCode127 ==
    (RoundTripped /\ codec.format = "R8G8B8A8_UNORM" /\ codec.texel = OpaqueHalfGreen)
        => /\ codec.stored = <<255, 127, 0, 255>>
           /\ codec.dst = Dst(Ratio(255, 255), Ratio(127, 255), Ratio(0, 255), Ratio(255, 255))

C18_SrgbDecode ==
    (codec.phase = "decoded"
     /\ codec.format \in {"R8G8B8A8_SRGB", "A8B8G8R8_SRGB_PACK32", "B8G8R8A8_SRGB"})
        => LET blueFirst == codec.format = "B8G8R8A8_SRGB"
               code == (0 :> codec.stored[IF blueFirst THEN 3 ELSE 1])
                       @@ (1 :> codec.stored[2])
                       @@ (2 :> codec.stored[IF blueFirst THEN 1 ELSE 3])
           IN  /\ codec.dst[3] = Ratio(codec.stored[4], 255)
               /\ \A c \in 0 .. 2 :
                     IF code[c] \in 0 .. 10
                     THEN codec.dst[c] = Ratio(code[c] * 100, 255 * 1292)
                     ELSE codec.dst[c] = [type |-> "Float", powerLaw |-> Ratio(code[c], 255)]

\* An R8G8B8A8_SRGB texel with the codes 10, 11, 188 and alpha 188 has been
\* read: red is linear, green and blue follow the power law, alpha is 188/255.
C18_Witness ==
    /\ codec.phase = "decoded"
    /\ codec.format = "R8G8B8A8_SRGB"
    /\ codec.stored = <<10, 11, 188, 188>>
    /\ codec.dst[0] = Ratio(1000, 255 * 1292)
    /\ codec.dst[1] = [type |-> "Float", powerLaw |-> Ratio(11, 255)]
    /\ codec.dst[2] = [type |-> "Float", powerLaw |-> Ratio(188, 255)]
    /\ codec.dst[3] = Ratio(188, 255)


\* The two's-complement code in the n-bit field (n = 8 or 16) of component c.
SnormFieldCode(bytes, n, c) ==
    IF n = 8
    THEN LET x == bytes[c + 1] IN IF x >= 128 THEN x - 256 ELSE x
    ELSE IntOfShort(<<bytes[2 * c + 1], bytes[2 * c + 2]>>)

\* C23: a texel of a UNORM, SNORM or integer format of the write path that
\* is decoded and encoded again comes back with every field code unchanged,
\* except an SNORM field holding the most negative code -2^(n-1): it decodes to
\* exactly -1.0 and is encoded as -(2^(n-1) - 1).  No SNORM field decodes to a
\* value below -1.0.
C23_EncodeDecode ==
    (codec.phase = "written back"
     /\ FormatClass(codec.format) \in {"UNORM", "SNORM", "SINT", "UINT"})
        => IF FormatClass(codec.format) # "SNORM"
           THEN codec.restored = codec.stored
           ELSE /\ Len(codec.restored) = Len(codec.stored)
                /\ \A c \in Components(codec.format) :
                      LET n == FieldBits(codec.format, c)
                          x == SnormFieldCode(codec.stored, n, c)
                          y == SnormFieldCode(codec.restored, n, c)
                      IN  /\ ~FloatLess(codec.dst[c], Float(0 - 1))
                          /\ IF x = MinSigned(n)
                             THEN codec.dst[c] = Float(0 - 1) /\ y = 0 - MaxSigned(n)
                             ELSE y = x

\* C23 witness: R8G8_SNORM holding the codes -128 and 127 decodes to -1.0 and
\* 1.0 and comes back as -127 and 127.
C23_Witness ==
    /\ codec.phase = "written back"
    /\ codec.format = "R8G8_SNORM"
    /\ codec.stored = <<128, 127>>
    /\ codec.dst[0] = Float(0 - 1) /\ codec.dst[1] = Float(1)
    /\ codec.restored = <<129, 127>>

\* C30: a texel written to B10G11R11_UFLOAT_PACK32 stores, for each channel
\* clamped at zero and taken as its half-float pattern h, the truncated
\* fields red = bits 4..14 of h in bits 0..10 of the word, green = bits 4..14
\* of h in bits 11..21, blue = bits 5..14 of h in bits 22..31; reading it
\* back yields, per channel, the half pattern h with the dropped mantissa
\* bits zero, and alpha 1.0.
C30_PackedFloat ==
    (RoundTripped /\ codec.format = "B10G11R11_UFLOAT_PACK32")
        => LET h(c) == IF codec.texel[c].half >= 32768 THEN 0 ELSE codec.texel[c].half
               b == codec.stored
               red == b[1] + 256 * (b[2] % 8)
               green == (b[2] \div 8) + 32 * (b[3] % 64)
               blue == (b[3] \div 64) + 4 * b[4]
           IN  /\ Len(b) = 4
               /\ red = h(0) \div 16
               /\ green = h(1) \div 16
               /\ blue = h(2) \div 32
               /\ codec.dst[0] = halfToFloatBits(h(0) - (h(0) % 16))
               /\ codec.dst[1] = halfToFloatBits(h(1) - (h(1) % 16))
               /\ codec.dst[2] = halfToFloatBits(h(2) - (h(2) % 32))
               /\ codec.dst[3] = Float(1)

\* The largest finite half (0x7BFF) in blue beside -1.0 in red and green has
\* made the round trip: the negative channels are stored as zero, blue keeps
\* its ten upper bits (0x7BE0) and is not rounded up to infinity.
C30_Witness ==
    /\ RoundTripped
    /\ codec.format = "B10G11R11_UFLOAT_PACK32"
    /\ codec.texel[0] = HalfFloat(48128)
    /\ codec.texel[1] = HalfFloat(48128)
    /\ codec.texel[2] = HalfFloat(31743)
    /\ codec.stored = <<0, 0, 192, 247>>
    /\ codec.dst[0] = halfToFloatBits(0)
    /\ codec.dst[2] = halfToFloatBits(31712)

(***************************************************************************)
(* Image addressing.  One invocation group of Width lanes executes an      *)
(* OpImageRead or OpImageWrite on the bound image.  A lane's input is its  *)
(* bit of the active mask, its coordinate operand (component index 0.. ->  *)
(* SIMD::Int lane) and its Sample operand.                                 *)
(***************************************************************************)
\* Variant: the margin is taken from the largest signed 16-bit offset.
OOB_OFFSET_Short == 32767 - 16

OOB_OFFSET == 2147483647 - 16

\* GetTexelAddress for one lane: the address coordinates u, v, w, n, the
\* offset as computed, the out-of-bounds predicate and the final offset.
GetTexelAddress(img, in, lane, texelSize, useStencilAspect) ==
    LET isArrayed == img.arrayed
        dims == img.coordinateCount - (IF isArrayed THEN 1 ELSE 0)
        subpass == img.dim = "SubpassData"
        u == in.coordinate[0] + (IF subpass THEN img.windowSpacePosition[lane][1] ELSE 0)
        v == (IF img.coordinateCount > 1 THEN in.coordinate[1] ELSE 0)
             + (IF subpass THEN img.windowSpacePosition[lane][2] ELSE 0)
        rowPitch == IF useStencilAspect THEN img.stencilRowPitchBytes ELSE img.rowPitchBytes
        slicePitch == IF useStencilAspect THEN img.stencilSlicePitchBytes
                      ELSE img.slicePitchBytes
        samplePitch == IF useStencilAspect THEN img.stencilSamplePitchBytes
                       ELSE img.samplePitchBytes
        hasW == dims > 2 \/ isArrayed
        w == (IF dims > 2 THEN in.coordinate[2] ELSE 0)
             + (IF isArrayed THEN in.coordinate[dims] ELSE 0)
        hasN == img.sampleOperand = "dynamic"
        n == IF hasN THEN in.sample ELSE 0
        ptrOffset == u * texelSize
                     + (IF dims > 1 THEN v * rowPitch ELSE 0)
                     + (IF hasW THEN w * slicePitch ELSE 0)
                     + (IF subpass THEN img.viewID * slicePitch ELSE 0)
                     + (IF hasN THEN n * samplePitch ELSE 0)
        depth == IF img.dim = "Cube" THEN img.depth * 6 ELSE img.depth
        oobMask == \/ UnsignedGE(u, img.width)
                   \/ dims > 1 /\ UnsignedGE(v, img.height)
                   \/ hasW /\ UnsignedGE(w, depth)
                   \/ hasN /\ UnsignedGE(n, img.sampleCount)
    IN  [u |-> u, v |-> v, w |-> w, n |-> n, dims |-> dims, computed |-> ptrOffset,
         oob |-> oobMask, offset |-> IF oobMask THEN OOB_OFFSET ELSE ptrOffset]

\* SIMD::Pointer::isInBounds(accessSize, robustness) for one lane
isInBounds(offset, accessSize, limit) ==
    offset >= 0 /\ Add32(offset, accessSize - 1) < limit

\* The bytes of memory at offset .. offset + size - 1
BytesAt(mem, offset, size) == [i \in 1 .. size |-> mem[offset + i - 1]]

\* Memory after the bytes are put at offset.
StoreAt(mem, offset, bytes) ==
    CASE Len(bytes) = 1 -> [mem EXCEPT ![offset] = bytes[1]]
      [] Len(bytes) = 2 -> [mem EXCEPT ![offset] = bytes[1], ![offset + 1] = bytes[2]]
      [] Len(bytes) = 4 -> [mem EXCEPT ![offset] = bytes[1], ![offset + 1] = bytes[2],
                                       ![offset + 2] = bytes[3], ![offset + 3] = bytes[4]]


RECURSIVE StoreLanes(_, _, _, _, _, _, _)
\* One masked store of size bytes per lane, lanes in ascending order from lane
\* on; a lane stores if its mask bit is set and its access is in bounds.
StoreLanes(mem, limit, offsets, bytes, mask, size, lane) ==
    IF lane = Width THEN mem
    ELSE StoreLanes(IF mask[lane] /\ isInBounds(offsets[lane], size, limit)
                    THEN StoreAt(mem, offsets[lane], bytes[lane]) ELSE mem,
                    limit, offsets, bytes, mask, size, lane + 1)

RECURSIVE ScatterWide(_, _, _, _, _, _, _)
\* texelSize 4, 8, 16 (lines 1300-1307): texelPtr.Store(packed[i], ...) then
\* texelPtr += sizeof(float), for word i on.
ScatterWide(mem, limit, offsets, packed, mask, texelSize, i) ==
    IF i = texelSize \div 4 THEN mem
    ELSE ScatterWide(StoreLanes(mem, limit, [l \in Lanes |-> Add32(offsets[l], 4 * i)],
                                [l \in Lanes |-> WordBytes(packed[l][i])], mask, 4, 0),
                     limit, offsets, packed, mask, texelSize, i + 1)

\* Variant: the per-lane scalar stores ignore the stores-and-atomics mask.
ScatterNarrowUnmasked(mem, limit, offsets, packed, mask, texelSize) ==
    StoreLanes(mem, limit, offsets, [l \in Lanes |-> TexelBytes(texelSize, packed[l])],
               [l \in Lanes |-> TRUE], texelSize, 0)

\* texelSize 2, 1 (lines 1308-1333): mask & isInBounds, one scalar store per lane
ScatterNarrow(mem, limit, offsets, packed, mask, texelSize) ==
    StoreLanes(mem, limit, offsets, [l \in Lanes |-> TexelBytes(texelSize, packed[l])],
               mask, texelSize, 0)

Scatter(mem, limit, offsets, packed, mask, texelSize) ==
    IF texelSize \in {4, 8, 16}
    THEN ScatterWide(mem, limit, offsets, packed, mask, texelSize, 0)
    ELSE ScatterNarrow(mem, limit, offsets, packed, mask, texelSize)

\* Variant: the scalar paths test the bounds and ignore the active-lane mask.
NarrowMaskBoundsOnly(active, offset, texelSize, limit) ==
    isInBounds(offset, texelSize, limit)

\* texelSize 2, 1 (lines 722, 735): one lane of
\* state->activeLaneMask() & texelPtr.isInBounds(texelSize, robustness)
NarrowMask(active, offset, texelSize, limit) ==
    active /\ isInBounds(offset, texelSize, limit)

\* packed[0..3] of one lane after the gather (lines 710-746).  A masked-off
\* or out-of-bounds lane of Load is 0; in the scalar paths such a lane of
\* packed[0] is never assigned and holds the indeterminate value undef.
Gather(mem, limit, offset, active, texelSize, undef) ==
    IF texelSize \in {4, 8, 16}
    THEN [i \in 0 .. 3 |->
            IF i >= texelSize \div 4 THEN Unassigned
            ELSE IF active /\ isInBounds(Add32(offset, 4 * i), 4, limit)
                 THEN BytesWord(BytesAt(mem, Add32(offset, 4 * i), 4))
                 ELSE 0]
    ELSE IF NarrowMask(active, offset, texelSize, limit)
         THEN GatherPacked(texelSize, BytesAt(mem, offset, texelSize))
         ELSE Dst(undef, Unassigned, Unassigned, Unassigned)

(***************************************************************************)
(* The bound image: its OpTypeImage (Dim, Arrayed, format, Sampled Type),  *)
(* the number of coordinate components and the kind of Sample operand of   *)
(* the instruction, and its StorageImageDescriptor, tightly packed.        *)
(***************************************************************************)
Extent == 2

MakeImage(dim, arrayed, coordinateCount, sampleOperand, format, sampledType) ==
    LET dims == coordinateCount - (IF arrayed THEN 1 ELSE 0)
        texelSize == FormatBytes(format)
        height == IF dims > 1 THEN Extent ELSE 1
        depth == IF dim = "Cube" THEN 1
                 ELSE IF dims > 2 \/ arrayed \/ dim = "SubpassData" THEN Extent ELSE 1
        slices == IF dim = "Cube" THEN 6 * depth ELSE depth
        sampleCount == IF sampleOperand = "none" THEN 1 ELSE Extent
        texels == Extent * height * slices * sampleCount
    IN  [dim |-> dim, arrayed |-> arrayed, coordinateCount |-> coordinateCount,
         sampleOperand |-> sampleOperand, format |-> format, sampledType |-> sampledType,
         width |-> Extent, height |-> height, depth |-> depth, sampleCount |-> sampleCount,
         rowPitchBytes |-> Extent * texelSize,
         slicePitchBytes |-> Extent * height * texelSize,
         samplePitchBytes |-> Extent * height * slices * texelSize,
         stencilRowPitchBytes |-> Extent,
         stencilSlicePitchBytes |-> Extent * height,
         stencilSamplePitchBytes |-> Extent * height * slices,
         sizeInBytes |-> texels * texelSize,
         stencilSizeInBytes |-> IF format = "D32_SFLOAT_S8_UINT" THEN texels ELSE 0,
         windowSpacePosition |-> [l \in Lanes |-> <<l % 2, 1 - ((l \div 2) % 2)>>],
         viewID |-> IF dim = "SubpassData" THEN 1 ELSE 0]

Shapes ==
    {<<"1D", FALSE, 1, "none">>, <<"1D", TRUE, 2, "none">>, <<"2D", FALSE, 2, "none">>,
     <<"2D", TRUE, 3, "none">>, <<"2D", FALSE, 2, "constantZero">>,
     <<"2D", FALSE, 2, "dynamic">>, <<"3D", FALSE, 3, "none">>,
     <<"Cube", FALSE, 3, "none">>, <<"Cube", TRUE, 3, "none">>,
     <<"Buffer", FALSE, 1, "none">>, <<"SubpassData", FALSE, 2, "none">>}

StorageFormats == {"R8_UINT", "R16_SINT", "R32_UINT", "R32G32_UINT", "R32G32B32A32_UINT"}

Images ==
    {MakeImage(s[1], s[2], s[3], s[4], f, "OpTypeInt") : s \in Shapes, f \in StorageFormats}
    \cup {MakeImage("SubpassData", FALSE, 2, "none", "D32_SFLOAT_S8_UINT", st) :
             st \in {"OpTypeFloat", "OpTypeInt"}}


\* Image memory before the instruction: no byte is zero.
InitialMemory(size) == [a \in 0 .. (size - 1) |-> ((a * 7) % 255) + 1]

\* What one lane can be given: an active lane at the first or the last texel,
\* an active lane with one coordinate component (or the sample index) just
\* outside, and an inactive lane inside or outside.
LaneInputs(img) ==
    LET comps == 0 .. (img.coordinateCount - 1)
        dynamic == img.sampleOperand = "dynamic"
        outside == {0 - 1, Extent} \cup (IF img.dim = "Cube" THEN {5, 6} ELSE {})
    IN  {[active |-> TRUE, coordinate |-> [c \in comps |-> b],
          sample |-> IF dynamic THEN b ELSE 0] : b \in {0, Extent - 1}}
        \cup {[active |-> TRUE, coordinate |-> [c \in comps |-> IF c = i THEN x ELSE 0],
               sample |-> 0] : i \in comps, x \in outside}
        \cup {[active |-> TRUE, coordinate |-> [c \in comps |-> 0], sample |-> x] :
                 x \in IF dynamic THEN {0 - 1, Extent} ELSE {}}
        \cup {[active |-> FALSE, coordinate |-> [c \in comps |-> b], sample |-> 0] :
                 b \in {0, 0 - 1}}

\* The texel operand of lane l of an OpImageWrite.
TexelOperand(l) == [c \in 0 .. 3 |-> UInt(16 * (l + 1) + c + 1)]

NoInstruction ==
    [kind |-> "none", in |-> <<>>, texelSize |-> 0, ptr |-> <<>>, texel |-> <<>>, dst |-> <<>>,
     loads |-> <<>>, words |-> <<>>]

\* The stencil plane holds other bytes than the primary plane: none is zero,
\* none is below 128.
InitImage ==
    /\ image \in Images
    /\ memory = [ptr |-> InitialMemory(image.sizeInBytes),
                 stencilPtr |-> [a \in 0 .. (image.stencilSizeInBytes - 1) |->
                                    ((a * 5) % 127) + 128]]
    /\ op = NoInstruction
    /\ CacheIdle /\ ConcIdle /\ CodecIdle /\ SampleIdle /\ QueryIdle

\* texelSize 4, 8, 16: the offsets of texelPtr at each Load or Store of a
\* lane, texelPtr += sizeof(float) after each (lines 713-717, 1302-1306)
WordOffsets(ptr, texelSize) ==
    [l \in Lanes |->
        IF texelSize \in {4, 8, 16}
        THEN [i \in 1 .. (texelSize \div 4) |-> Add32(ptr[l].offset, 4 * (i - 1))]
        ELSE <<>>]

EmitImageWrite(in) ==
    /\ image.dim # "SubpassData"
    /\ LET texel == [l \in Lanes |-> TexelOperand(l)]
           enc == [l \in Lanes |-> EncodeTexel(image.format, texel[l])]
           texelSize == enc[0].texelSize
           ptr == [l \in Lanes |-> GetTexelAddress(image, in[l], l, texelSize, FALSE)]
       IN  /\ memory' = [memory EXCEPT
                            !.ptr = Scatter(@, image.sizeInBytes,
                                            [l \in Lanes |-> ptr[l].offset],
                                            [l \in Lanes |-> enc[l].packed],
                                            [l \in Lanes |-> in[l].active], texelSize)]
           /\ op' = [kind |-> "write", in |-> in, texelSize |-> texelSize, ptr |-> ptr,
                     texel |-> texel, dst |-> <<>>, loads |-> <<>>,
                     words |-> WordOffsets(ptr, texelSize)]
    /\ UNCHANGED <<image, cacheVars, concVars, codecVars, sampleVars, queryVars>>

EmitImageRead(in, undef) ==
    /\ LET useStencilAspect == UseStencilAspect(image.format, image.sampledType)
           vkFormat == ReadFormat(image.format, image.sampledType)
           imageBase == IF useStencilAspect THEN memory.stencilPtr ELSE memory.ptr
           texelSize == FormatBytes(vkFormat)
           ptr == [l \in Lanes |->
                      GetTexelAddress(image, in[l], l, texelSize, useStencilAspect)]
           packed == [l \in Lanes |->
                         Gather(imageBase, image.sizeInBytes, ptr[l].offset, in[l].active,
                                texelSize, undef)]
           \* the scalar loads *Pointer<Short / Byte>(texelPtr.base + offset) of the
           \* loops over i = 0 .. SIMD::Width - 1, in the order they are made
           scalar == SelectSeq([i \in 1 .. Width |-> [lane |-> i - 1, offset |-> ptr[i - 1].offset]],
                               LAMBDA e : NarrowMask(in[e.lane].active, e.offset, texelSize,
                                                     image.sizeInBytes))
       IN  /\ \/ undef = 0
              \/ /\ texelSize \in {1, 2}
                 /\ \E l \in Lanes :
                       ~NarrowMask(in[l].active, ptr[l].offset, texelSize, image.sizeInBytes)
           /\ op' = [kind |-> "read", in |-> in, texelSize |-> texelSize, ptr |-> ptr,
                     texel |-> <<>>,
                     dst |-> [l \in Lanes |-> DecodeTexel(vkFormat, packed[l])],
                     loads |-> IF texelSize \in {1, 2} THEN scalar ELSE <<>>,
                     words |-> WordOffsets(ptr, texelSize)]
    /\ UNCHANGED <<image, memory, cacheVars, concVars, codecVars, sampleVars, queryVars>>

\* The group executes one image instruction on the image prepared by
\* InitImage; undef is a value an unassigned lane of a SIMD::Int may hold.
OpImageWrite ==
    /\ op.kind = "none"
    /\ \E in \in [Lanes -> LaneInputs(image)] : EmitImageWrite(in)

OpImageRead ==
    /\ op.kind = "none"
    /\ \E in \in [Lanes -> LaneInputs(image)], undef \in {0, 0 - 1} :
          EmitImageRead(in, undef)

NextImage == OpImageWrite \/ OpImageRead

SpecImage == InitImage /\ [][NextImage]_vars


(***************************************************************************)
(* Properties of image addressing.                                         *)
(***************************************************************************)
Executed == op.kind \in {"read", "write"}

\* Is the address of lane l of instruction o inside the image on every axis
\* that applies, as signed numbers: 0 <= u < width, 0 <= v < height when
\* dims > 1, 0 <= w < depth (6 * depth for a cube) when dims > 2 or arrayed,
\* 0 <= n < sampleCount when the Sample operand is not constant zero?
InsideEveryAxis(o, l) ==
    LET p == o.ptr[l]
    IN  /\ 0 <= p.u /\ p.u < image.width
        /\ p.dims > 1 => (0 <= p.v /\ p.v < image.height)
        /\ (p.dims > 2 \/ image.arrayed)
              => (0 <= p.w /\ p.w < (IF image.dim = "Cube" THEN 6 ELSE 1) * image.depth)
        /\ image.sampleOperand = "dynamic" => (0 <= p.n /\ p.n < image.sampleCount)

\* C3: GetTexelAddress marks a lane out of bounds exactly when one of its
\* applicable axes is outside (a negative coordinate counts as outside); the
\* offset of such a lane is 0x7FFFFFFF - 16 and the offset of every other
\* lane is the offset computed from its coordinates.
C3_NullifyBounds ==
    Executed
        => \A l \in Lanes :
              /\ op.ptr[l].oob = ~InsideEveryAxis(op, l)
              /\ op.ptr[l].offset =
                    IF InsideEveryAxis(op, l) THEN op.ptr[l].computed ELSE 2147483631

\* A 2D image was addressed by one lane with v = -1, which is marked, and by
\* one lane at its last texel, which keeps its computed offset.
C3_Witness ==
    /\ Executed
    /\ image.dim = "2D" /\ ~image.arrayed /\ image.sampleOperand = "none"
    /\ op.texelSize = 4
    /\ op.in[0].active /\ op.ptr[0].u = 0 /\ op.ptr[0].v = 0 - 1
    /\ op.ptr[0].oob /\ op.ptr[0].offset = 2147483631
    /\ op.in[1].active /\ op.ptr[1].u = Extent - 1 /\ op.ptr[1].v = Extent - 1
    /\ ~op.ptr[1].oob /\ op.ptr[1].offset = image.sizeInBytes - 4

\* Is lane l of instruction o set in the mask and inside the image?
ActiveInside(o, l) == o.in[l].active /\ InsideEveryAxis(o, l)

\* C4: an OpImageWrite changes no byte outside the texelSize bytes at the
\* computed offset of a lane that is active and inside on every axis, for
\* texel sizes 1, 2, 4, 8 and 16; and the texel of every such lane holds the
\* value written by it (or by another such lane aimed at the same texel),
\* whatever the other lanes of the group are.
C4_WriteFrame ==
    [][op'.kind = "write"
          => /\ op'.texelSize = FormatBytes(image.format)
             /\ \A a \in DOMAIN memory.ptr :
                   memory'.ptr[a] # memory.ptr[a]
                      => \E l \in Lanes :
                            /\ ActiveInside(op', l)
                            /\ op'.ptr[l].computed <= a
                            /\ a < op'.ptr[l].computed + op'.texelSize
             /\ \A l \in Lanes :
                   ActiveInside(op', l)
                      => \E k \in Lanes :
                            /\ ActiveInside(op', k)
                            /\ op'.ptr[k].computed = op'.ptr[l].computed
                            /\ BytesAt(memory'.ptr, op'.ptr[l].computed, op'.texelSize)
                                  = WriteLane(image.format, op'.texel[k])
             /\ memory'.stencilPtr = memory.stencilPtr]_vars

\* A 2-byte write with an active lane outside in u, whose flat offset would
\* be the first texel of the next row, and an active lane at the last texel:
\* the last texel holds lane 1's value and the next row is untouched.
C4_Witness ==
    /\ op.kind = "write"
    /\ op.texelSize = 2
    /\ image.dim = "2D" /\ ~image.arrayed
    /\ op.in[0].active /\ op.ptr[0].u = Extent /\ op.ptr[0].v = 0
    /\ op.ptr[0].computed = image.rowPitchBytes
    /\ op.in[1].active /\ ~op.ptr[1].oob
    /\ BytesAt(memory.ptr, op.ptr[1].computed, 2) = WriteLane(image.format, op.texel[1])
    /\ BytesAt(memory.ptr, image.rowPitchBytes, 2)
          = BytesAt(InitialMemory(image.sizeInBytes), image.rowPitchBytes, 2)


\* What lane l of a read must return: zero texel bits decoded when it is
\* outside, its own texel decoded when it is inside.
ExpectedRead(l) ==
    LET vkFormat == ReadFormat(image.format, image.sampledType)
        imageBase == IF UseStencilAspect(image.format, image.sampledType)
                     THEN memory.stencilPtr ELSE memory.ptr
    IN  IF InsideEveryAxis(op, l)
        THEN DecodeTexel(vkFormat,
                         GatherPacked(op.texelSize,
                                      BytesAt(imageBase, op.ptr[l].computed, op.texelSize)))
        ELSE DecodeTexel(vkFormat, Dst(0, 0, 0, 0))

\* C5: every active lane of an OpImageRead whose coordinates are outside on
\* some axis returns the all-zero result (each channel decoded from zero
\* texel bits), for every texel size, the 1- and 2-byte scalar paths
\* included, and every active lane inside returns its own texel decoded.
C5_ReadOutOfBoundsZero ==
    op.kind = "read" => \A l \in Lanes : op.in[l].active => op.dst[l] = ExpectedRead(l)

\* The same for the texel sizes 4, 8 and 16, which are gathered with Load.
C5_WideReadOutOfBoundsZero ==
    (op.kind = "read" /\ op.texelSize >= 4)
        => \A l \in Lanes : op.in[l].active => op.dst[l] = ExpectedRead(l)

\* A 1-byte read returned a non-zero first channel to an active lane whose
\* coordinate is outside the image.
C5_NonZeroOutOfBounds ==
    /\ op.kind = "read"
    /\ op.texelSize = 1
    /\ \E l \in Lanes :
          /\ op.in[l].active
          /\ ~InsideEveryAxis(op, l)
          /\ op.dst[l][0].bits # 0


\* C19: for a lane that is not marked out of bounds the offset is
\* u * texelSize, plus v * rowPitch when dims > 1, plus w * slicePitch when
\* dims > 2 or the image is arrayed (w: the depth coordinate plus the layer
\* coordinate), plus n * samplePitch when the Sample operand is present and
\* not constant zero; for a subpass image u and v are the coordinates plus the
\* lane's window-space x and y, the lane is marked exactly when these shifted
\* values are outside the image, and viewID * slicePitch is added; the pitches
\* are the stencil ones exactly when the stencil aspect is read.
C19_TexelOffset ==
    Executed
        => \A l \in Lanes :
              LET in == op.in[l]
                  subpass == image.dim = "SubpassData"
                  stencil == /\ op.kind = "read"
                             /\ image.format = "D32_SFLOAT_S8_UINT"
                             /\ image.sampledType = "OpTypeInt"
                  dims == image.coordinateCount - (IF image.arrayed THEN 1 ELSE 0)
                  u == in.coordinate[0]
                       + (IF subpass THEN image.windowSpacePosition[l][1] ELSE 0)
                  v == (IF image.coordinateCount > 1 THEN in.coordinate[1] ELSE 0)
                       + (IF subpass THEN image.windowSpacePosition[l][2] ELSE 0)
                  w == (IF dims > 2 THEN in.coordinate[2] ELSE 0)
                       + (IF image.arrayed THEN in.coordinate[dims] ELSE 0)
                  rowPitch == IF stencil THEN image.stencilRowPitchBytes
                              ELSE image.rowPitchBytes
                  slicePitch == IF stencil THEN image.stencilSlicePitchBytes
                                ELSE image.slicePitchBytes
                  samplePitch == IF stencil THEN image.stencilSamplePitchBytes
                                 ELSE image.samplePitchBytes
              IN  /\ ~op.ptr[l].oob =>
                        op.ptr[l].offset =
                           u * op.texelSize
                           + (IF dims > 1 THEN v * rowPitch ELSE 0)
                           + (IF dims > 2 \/ image.arrayed THEN w * slicePitch ELSE 0)
                           + (IF image.sampleOperand = "dynamic"
                              THEN in.sample * samplePitch ELSE 0)
                           + (IF subpass THEN image.viewID * slicePitch ELSE 0)
                  /\ subpass =>
                        op.ptr[l].oob = ~(/\ 0 <= u /\ u < image.width
                                          /\ 0 <= v /\ v < image.height)
                  /\ op.texelSize = IF stencil THEN 1 ELSE FormatBytes(image.format)

\* The stencil aspect of a depth-stencil input attachment has been read by a
\* lane at window position (1, 1) with coordinate (0, 0) in view 1: its
\* offset is 1 * 1 + 1 * stencil row pitch + 1 * stencil slice pitch.
C19_Witness ==
    /\ op.kind = "read"
    /\ image.dim = "SubpassData"
    /\ image.format = "D32_SFLOAT_S8_UINT" /\ image.sampledType = "OpTypeInt"
    /\ image.windowSpacePosition[1] = <<1, 1>>
    /\ image.viewID = 1
    /\ op.in[1].active
    /\ op.in[1].coordinate[0] = 0 /\ op.in[1].coordinate[1] = 0
    /\ ~op.ptr[1].oob
    /\ op.texelSize = 1
    /\ op.ptr[1].offset = 1 + image.stencilRowPitchBytes + image.stencilSlicePitchBytes
    /\ op.ptr[1].offset # 4 + image.rowPitchBytes + image.slicePitchBytes


\* C20: in the 1-byte and 2-byte paths of EmitImageRead a scalar load is made
\* for lane i only if lane i is set in the active-lane mask and the texel at
\* its offset lies inside the image's memory; a lane outside the mask makes no
\* load; the loads are made in ascending lane order; and the result of a lane
\* that loads is the decoding of the bytes at its own offset, whatever the
\* other lanes are.
C20_ScalarLoads ==
    (op.kind = "read" /\ op.texelSize \in {1, 2})
        => LET base == IF UseStencilAspect(image.format, image.sampledType)
                       THEN memory.stencilPtr ELSE memory.ptr
               loaded == {op.loads[k].lane : k \in 1 .. Len(op.loads)}
           IN  /\ \A k \in 1 .. Len(op.loads) :
                     LET e == op.loads[k]
                     IN  /\ op.in[e.lane].active
                         /\ e.offset = op.ptr[e.lane].offset
                         /\ 0 <= e.offset /\ e.offset + op.texelSize <= image.sizeInBytes
                         /\ \A a \in e.offset .. (e.offset + op.texelSize - 1) :
                               a \in DOMAIN base
                         /\ \A j \in 1 .. (k - 1) : op.loads[j].lane < e.lane
               /\ \A l \in Lanes :
                     /\ ~op.in[l].active => l \notin loaded
                     /\ ActiveInside(op, l) => l \in loaded
                     /\ l \in loaded =>
                           op.dst[l] = ReadLane(image.format, image.sampledType,
                                                BytesAt(base, op.ptr[l].offset, op.texelSize))

\* A 2-byte read with lane 0 inactive at a texel inside the image and lane 1
\* active at the last texel: the only load is lane 1's.
C20_Witness ==
    /\ op.kind = "read"
    /\ op.texelSize = 2
    /\ ~op.in[0].active /\ ~op.ptr[0].oob
    /\ op.in[1].active /\ ~op.ptr[1].oob
    /\ op.ptr[1].offset = image.sizeInBytes - 2
    /\ op.loads = <<[lane |-> 1, offset |-> image.sizeInBytes - 2]>>


\* C24: an OpImageRead of a D32_SFLOAT_S8_UINT image whose Sampled Type is an
\* integer reads, for every active lane inside the image, one byte of the
\* stencil plane at the offset formed with the stencil pitches, and returns
\* it as (s, 0, 0, 1) in integers; with a floating-point Sampled Type it reads
\* four bytes of the primary plane at the offset formed with the primary
\* pitches and returns (d, 0.0, 0.0, 1.0).  A read of any other format uses
\* the primary plane and the format's own texel size, and an OpImageWrite
\* uses the primary pitches and leaves the stencil plane as it was.
C24_AspectSelection ==
    LET d32s8 == image.format = "D32_SFLOAT_S8_UINT"
        int == image.sampledType = "OpTypeInt"
        PlaneOffset(q, size, row, slice, sample) ==
            q.u * size + (IF q.dims > 1 THEN q.v * row ELSE 0)
            + ((IF q.dims > 2 \/ image.arrayed THEN q.w ELSE 0) + image.viewID) * slice
            + (IF image.sampleOperand = "dynamic" THEN q.n * sample ELSE 0)
        Primary(q, size) == PlaneOffset(q, size, image.rowPitchBytes, image.slicePitchBytes,
                                        image.samplePitchBytes)
        Stencil(q) == PlaneOffset(q, 1, image.stencilRowPitchBytes,
                                  image.stencilSlicePitchBytes, image.stencilSamplePitchBytes)
    IN  /\ op.kind = "read" =>
              /\ op.texelSize = IF d32s8 THEN (IF int THEN 1 ELSE 4)
                                ELSE FormatBytes(image.format)
              /\ \A l \in Lanes :
                    ActiveInside(op, l) =>
                       IF d32s8 /\ int
                       THEN /\ op.ptr[l].offset = Stencil(op.ptr[l])
                            /\ op.dst[l] = UInt0001(UInt(memory.stencilPtr[Stencil(op.ptr[l])]))
                       ELSE IF d32s8
                       THEN /\ op.ptr[l].offset = Primary(op.ptr[l], 4)
                            /\ op.dst[l] =
                                  Float0001(SInt(BytesWord(
                                      BytesAt(memory.ptr, Primary(op.ptr[l], 4), 4))))
                       ELSE /\ op.ptr[l].offset = Primary(op.ptr[l], op.texelSize)
                            /\ op.dst[l] =
                                  DecodeTexel(image.format,
                                      GatherPacked(op.texelSize,
                                          BytesAt(memory.ptr, op.ptr[l].offset, op.texelSize)))
        /\ op.kind = "write" =>
              /\ op.texelSize = FormatBytes(image.format)
              /\ memory.stencilPtr = [a \in 0 .. (image.stencilSizeInBytes - 1) |->
                                         ((a * 5) % 127) + 128]
              /\ \A l \in Lanes :
                    ActiveInside(op, l) =>
                       op.ptr[l].offset = Primary(op.ptr[l], op.texelSize)

\* C24 witness: the depth-stencil attachment read with an integer Sampled
\* Type; lane 0 is active inside the image and its result is the byte of the
\* stencil plane at its stencil offset, which is not the byte the primary
\* plane holds there.
C24_Witness ==
    /\ op.kind = "read"
    /\ image.format = "D32_SFLOAT_S8_UINT" /\ image.sampledType = "OpTypeInt"
    /\ ActiveInside(op, 0)
    /\ op.texelSize = 1
    /\ op.dst[0][0] = UInt(memory.stencilPtr[op.ptr[0].offset])
    /\ op.dst[0][3] = UInt(1)
    /\ memory.stencilPtr[op.ptr[0].offset] # memory.ptr[op.ptr[0].offset]

\* C29: the sentinel 0x7FFFFFFF - 16 is not below the size of the image's
\* allocation, and for the texel sizes 4, 8 and 16 the offset of a lane marked
\* out of bounds is, at word i, the sentinel plus 4 * i: the advance has not
\* wrapped, the last byte of the word is at most 0x7FFFFFFF - 1 and outside
\* the allocation, so the lane reads zero in every word, and a write whose
\* active lanes are all marked leaves the image as it was.
C29_SentinelAdvance ==
    Executed
        => /\ 2147483631 >= image.sizeInBytes
           /\ \A l \in Lanes :
                 (op.ptr[l].oob /\ op.texelSize \in {4, 8, 16})
                    => /\ Len(op.words[l]) = op.texelSize \div 4
                       /\ \A i \in 1 .. Len(op.words[l]) :
                             /\ op.words[l][i] = 2147483631 + 4 * (i - 1)
                             /\ op.words[l][i] >= 2147483631
                             /\ op.words[l][i] + 3 <= 2147483646
                             /\ op.words[l][i] + 3 >= image.sizeInBytes
                       /\ op.kind = "read"
                             => op.dst[l] = DecodeTexel(ReadFormat(image.format, image.sampledType),
                                                       [i \in 0 .. 3 |->
                                                           IF i < op.texelSize \div 4 THEN 0
                                                           ELSE Unassigned])
           /\ (/\ op.kind = "write"
               /\ op.texelSize \in {4, 8, 16}
               /\ \A l \in Lanes : op.in[l].active => op.ptr[l].oob)
                 => memory.ptr = InitialMemory(image.sizeInBytes)

\* A write of 16-byte texels with both lanes active, lane 0 outside the
\* image: its four stores were aimed at the sentinel, + 4, + 8 and + 12, and
\* changed nothing, while lane 1 wrote the last texel.
C29_Witness ==
    /\ op.kind = "write"
    /\ op.texelSize = 16
    /\ op.in[0].active /\ op.ptr[0].oob
    /\ op.words[0] = <<2147483631, 2147483635, 2147483639, 2147483643>>
    /\ op.in[1].active /\ ~op.ptr[1].oob
    /\ op.words[1][1] = image.sizeInBytes - 16
    /\ memory.ptr[image.sizeInBytes - 16] # InitialMemory(image.sizeInBytes)[image.sizeInBytes - 16]
    /\ \A a \in 0 .. (image.sizeInBytes - 17) :
          memory.ptr[a] = InitialMemory(image.sizeInBytes)[a]


(***************************************************************************)
(* Instruction decoding and the sampler call.  EmitImageSample builds an   *)
(* ImageInstruction from the words of an image sampling instruction and    *)
(* callSamplerFunction lays the operands out in the routine's input array. *)
(* The <id> in word k is k itself, so a decoded id tells which word it was  *)
(* read from.                                                              *)
(***************************************************************************)
ImageOperandsBiasMask == 1
ImageOperandsLodMask == 2
ImageOperandsGradMask == 4
ImageOperandsConstOffsetMask == 8
ImageOperandsSampleMask == 64

\* imageOperands & mask, for a mask of one bit
HasBit(imageOperands, mask) == AndNat(imageOperands, mask) # 0

MaxCoordinateComponents == 3
MaxOperandComponents == 2
MaxGatherComponent == 1

Opcodes ==
    {"OpImageSampleImplicitLod", "OpImageSampleExplicitLod",
     "OpImageSampleDrefImplicitLod", "OpImageSampleDrefExplicitLod",
     "OpImageSampleProjImplicitLod", "OpImageSampleProjExplicitLod",
     "OpImageSampleProjDrefImplicitLod", "OpImageSampleProjDrefExplicitLod",
     "OpImageGather", "OpImageDrefGather", "OpImageFetch", "OpImageQueryLod"}

ExplicitLodOpcodes ==
    {"OpImageSampleExplicitLod", "OpImageSampleDrefExplicitLod",
     "OpImageSampleProjExplicitLod", "OpImageSampleProjDrefExplicitLod"}

isDref(variant) == variant \in {"Dref", "ProjDref"}
isProj(variant) == variant \in {"Proj", "ProjDref"}

\* insn.wordCount(): word 0 holds the opcode and the count
wordCount(insn) == Len(insn.word) + 1

getImageOperands(insn) ==
    CASE insn.opcode \in {"OpImageSampleImplicitLod", "OpImageSampleProjImplicitLod"} ->
            IF wordCount(insn) > 5 THEN insn.word[5] ELSE 0
      [] insn.opcode \in {"OpImageSampleExplicitLod", "OpImageSampleProjExplicitLod"} ->
            insn.word[5]
      [] insn.opcode \in {"OpImageSampleDrefImplicitLod", "OpImageSampleProjDrefImplicitLod"} ->
            IF wordCount(insn) > 6 THEN insn.word[6] ELSE 0
      [] insn.opcode \in {"OpImageSampleDrefExplicitLod", "OpImageSampleProjDrefExplicitLod"} ->
            insn.word[6]
      [] insn.opcode \in {"OpImageGather", "OpImageDrefGather"} ->
            IF wordCount(insn) > 6 THEN insn.word[6] ELSE 0
      [] insn.opcode = "OpImageFetch" ->
            IF wordCount(insn) > 5 THEN insn.word[5] ELSE 0
      [] insn.opcode = "OpImageQueryLod" -> 0

ImageInstructionState(variant, samplerMethod) ==
    [variant |-> variant, samplerMethod |-> samplerMethod]

parseVariantAndMethod(insn) ==
    LET imageOperands == getImageOperands(insn)
        bias == HasBit(imageOperands, ImageOperandsBiasMask)
        grad == HasBit(imageOperands, ImageOperandsGradMask)
        implicit == IF bias THEN "Bias" ELSE "Implicit"
        explicit == IF grad THEN "Grad" ELSE "Lod"
    IN  CASE insn.opcode = "OpImageSampleImplicitLod" -> ImageInstructionState("None", implicit)
          [] insn.opcode = "OpImageSampleExplicitLod" -> ImageInstructionState("None", explicit)
          [] insn.opcode = "OpImageSampleDrefImplicitLod" -> ImageInstructionState("Dref", implicit)
          [] insn.opcode = "OpImageSampleDrefExplicitLod" -> ImageInstructionState("Dref", explicit)
          [] insn.opcode = "OpImageSampleProjImplicitLod" -> ImageInstructionState("Proj", implicit)
          [] insn.opcode = "OpImageSampleProjExplicitLod" -> ImageInstructionState("Proj", explicit)
          [] insn.opcode = "OpImageSampleProjDrefImplicitLod" ->
                ImageInstructionState("ProjDref", implicit)
          [] insn.opcode = "OpImageSampleProjDrefExplicitLod" ->
                ImageInstructionState("ProjDref", explicit)
          [] insn.opcode = "OpImageGather" -> ImageInstructionState("None", "Gather")
          [] insn.opcode = "OpImageDrefGather" -> ImageInstructionState("Dref", "Gather")
          [] insn.opcode = "OpImageFetch" -> ImageInstructionState("None", "Fetch")
          [] insn.opcode = "OpImageQueryLod" -> ImageInstructionState("None", "Query")

\* Variant: the first operand <id> is always taken from word 6.
FirstOperandWordSix(dref, gather) == 6

\* (isDref() || samplerMethod == Gather) ? 7 : 6
FirstOperand(dref, gather) == IF dref \/ gather THEN 7 ELSE 6

\* Variant: the selector constant is read for every Gather.
GatherSelectorAlways(dref) == TRUE

\* !isDref(): is the component selector of a Gather read from word 5?
GatherSelector(dref) == ~dref

\* Variant: the coordinate count keeps the divisor.
CoordinateCountWithDivisor(count, proj) == count

\* coordinateType.componentCount - (isProj() ? 1 : 0)
CoordinateCount(count, proj) == count - (IF proj THEN 1 ELSE 0)

\* The constructor.  Members it does not assign keep their initial value (0,
\* false).  failure is the first ASSERT or UNSUPPORTED the constructor runs
\* into; constantsRead is the set of objects whose constantValue it has read.
ImageInstruction(insn) ==
    LET state == parseVariantAndMethod(insn)
        samplerMethod == state.samplerMethod
        dref == isDref(state.variant)
        gather == samplerMethod = "Gather"
        imageOperands == getImageOperands(insn)
        operand == FirstOperand(dref, gather)
        bias == HasBit(imageOperands, ImageOperandsBiasMask)
        afterBias == operand + (IF bias THEN 1 ELSE 0)
        lod == HasBit(imageOperands, ImageOperandsLodMask)
        afterLod == afterBias + (IF lod THEN 1 ELSE 0)
        grad == HasBit(imageOperands, ImageOperandsGradMask)
        afterGrad == afterLod + (IF grad THEN 2 ELSE 0)
        constOffset == HasBit(imageOperands, ImageOperandsConstOffsetMask)
        afterOffset == afterGrad + (IF constOffset THEN 1 ELSE 0)
        sample == HasBit(imageOperands, ImageOperandsSampleMask)
        remaining == imageOperands
                     - (IF bias THEN ImageOperandsBiasMask ELSE 0)
                     - (IF lod THEN ImageOperandsLodMask ELSE 0)
                     - (IF grad THEN ImageOperandsGradMask ELSE 0)
                     - (IF constOffset THEN ImageOperandsConstOffsetMask ELSE 0)
                     - (IF sample THEN ImageOperandsSampleMask ELSE 0)
        asserted ==
            \/ bias /\ samplerMethod # "Bias"
            \/ lod /\ samplerMethod \notin {"Lod", "Fetch"}
            \/ grad /\ samplerMethod # "Grad"
            \/ sample /\ samplerMethod # "Fetch"
            \/ insn.opcode = "OpImageQueryLod" /\ wordCount(insn) # 5
    IN  [variant |-> state.variant,
         samplerMethod |-> samplerMethod,
         resultId |-> insn.word[2],
         sampledImageId |-> insn.word[3],
         coordinateId |-> insn.word[4],
         coordinates |-> CoordinateCount(insn.componentCount[insn.word[4]],
                                         isProj(state.variant)),
         drefId |-> IF dref THEN insn.word[5] ELSE 0,
         gatherComponent |->
             IF gather /\ GatherSelector(dref) THEN insn.constantValue[insn.word[5]] ELSE 0,
         constantsRead |-> IF gather /\ GatherSelector(dref) THEN {insn.word[5]} ELSE {},
         lodOrBiasId |-> IF lod THEN insn.word[afterBias]
                         ELSE IF bias THEN insn.word[operand] ELSE 0,
         gradDxId |-> IF grad THEN insn.word[afterLod] ELSE 0,
         gradDyId |-> IF grad THEN insn.word[afterLod + 1] ELSE 0,
         grad |-> IF grad THEN insn.componentCount[insn.word[afterLod]] ELSE 0,
         offsetId |-> IF constOffset THEN insn.word[afterGrad] ELSE 0,
         offset |-> IF constOffset THEN insn.componentCount[insn.word[afterGrad]] ELSE 0,
         sampleId |-> IF sample THEN insn.word[afterOffset] ELSE 0,
         sample |-> sample,
         failure |-> IF asserted THEN "ASSERT"
                     ELSE IF remaining # 0 THEN "UNSUPPORTED" ELSE "none",
         unsupported |-> remaining]

\* Operand(this, state, id).Float(j) and .Int(j): the lane value of component
\* j of object id.  Every component of every object has a value of its own.
OperandFloat(id, j) == Float(8 * id + j + 1)
OperandInt(id, j) == SInt(8 * id + j + 1)

\* As<SIMD::Float>(x): the bits of an integer lane in a float register
AsFloat(x) == [type |-> "Float", bits |-> x.bits]

\* a / b on SIMD::Float, b # 0
FloatDiv(a, b) ==
    IF b.num < 0 THEN Ratio((0 - a.num) * b.den, a.den * (0 - b.num))
    ELSE Ratio(a.num * b.den, a.den * b.num)

\* An element of Array<SIMD::Float> in(16) that has not been assigned.
Uninitialized == [type |-> "Uninitialized"]

\* Variant: the lod of a Fetch is left out when the instruction gives none.
FetchDefaultLodOmitted == <<>>

\* As<SIMD::Float>(SIMD::Int(0)), the lod of a Fetch that gives none
FetchDefaultLod == <<AsFloat(SInt(0))>>

\* callSamplerFunction: the elements in[0 ..] it assigns, in order of i.
\* insn.componentCount is Operand::componentCount of each object.  The second
\* gradient loop runs to dxValue.componentCount; dyValue.Float(j) with j
\* not below dyValue.componentCount reads past the operand's components,
\* and stray is what that read returns.
SamplerInputs(instruction, insn, stray) ==
    LET proj == isProj(instruction.variant)
        dxCount == insn.componentCount[instruction.gradDxId]
        dyFloat(j) == IF j < insn.componentCount[instruction.gradDyId]
                      THEN OperandFloat(instruction.gradDyId, j) ELSE stray
        divisor == OperandFloat(instruction.coordinateId, instruction.coordinates)
        coordinate ==
            [i \in 1 .. instruction.coordinates |->
                IF proj THEN FloatDiv(OperandFloat(instruction.coordinateId, i - 1), divisor)
                ELSE OperandFloat(instruction.coordinateId, i - 1)]
        drefValue ==
            IF isDref(instruction.variant)
            THEN <<IF proj THEN FloatDiv(OperandFloat(instruction.drefId, 0), divisor)
                   ELSE OperandFloat(instruction.drefId, 0)>>
            ELSE <<>>
        lodOrGrad ==
            IF instruction.lodOrBiasId # 0
            THEN <<OperandFloat(instruction.lodOrBiasId, 0)>>
            ELSE IF instruction.gradDxId # 0
            THEN [j \in 1 .. dxCount |-> OperandFloat(instruction.gradDxId, j - 1)]
                 \o [j \in 1 .. dxCount |-> dyFloat(j - 1)]
            ELSE IF instruction.samplerMethod = "Fetch" THEN FetchDefaultLod
            ELSE <<>>
        offsetValue ==
            IF instruction.offsetId # 0
            THEN [j \in 1 .. instruction.offset |->
                     AsFloat(OperandInt(instruction.offsetId, j - 1))]
            ELSE <<>>
        sampleValue ==
            IF instruction.sample THEN <<AsFloat(OperandInt(instruction.sampleId, 0))>>
            ELSE <<>>
    IN  coordinate \o drefValue \o lodOrGrad \o offsetValue \o sampleValue

\* Array<SIMD::Float> in(16) as the routine is called with it, the outcome of
\* ASSERT(dxValue.componentCount == dxValue.componentCount) in the gradient
\* branch, and the components j for which dyValue.Float(j) is evaluated.
callSamplerFunction(instruction, insn, stray) ==
    LET assigned == SamplerInputs(instruction, insn, stray)
        gradients == instruction.lodOrBiasId = 0 /\ instruction.gradDxId # 0
        dxCount == insn.componentCount[instruction.gradDxId]
    IN  [failure |-> IF gradients /\ ~(dxCount = dxCount) THEN "ASSERT" ELSE "none",
         dyRead |-> IF gradients THEN 0 .. (dxCount - 1) ELSE {},
         in |-> [i \in 0 .. 15 |->
                    IF i < Len(assigned) THEN assigned[i + 1] ELSE Uninitialized]]

\* The instructions of a module: the operand <id>s follow the mask in the
\* order of its bits, two for Grad and one for every other bit.  Offset
\* (0x10) and MinLod (0x80) are bits the constructor has no case for.
OperandRoles(mask) ==
    LET bits == <<<<"Bias", ImageOperandsBiasMask>>, <<"Lod", ImageOperandsLodMask>>,
                  <<"Grad", ImageOperandsGradMask>>, <<"GradDy", ImageOperandsGradMask>>,
                  <<"ConstOffset", ImageOperandsConstOffsetMask>>, <<"Offset", 16>>,
                  <<"Sample", ImageOperandsSampleMask>>, <<"MinLod", 128>>>>
        set == SelectSeq(bits, LAMBDA b : HasBit(mask, b[2]))
    IN  [k \in 1 .. Len(set) |-> set[k][1]]

DrefOpcodes ==
    {"OpImageSampleDrefImplicitLod", "OpImageSampleDrefExplicitLod",
     "OpImageSampleProjDrefImplicitLod", "OpImageSampleProjDrefExplicitLod",
     "OpImageDrefGather"}

ProjOpcodes ==
    {"OpImageSampleProjImplicitLod", "OpImageSampleProjExplicitLod",
     "OpImageSampleProjDrefImplicitLod", "OpImageSampleProjDrefExplicitLod"}

Instruction(opcode, mask, hasMask, coordinateCount, operandCount, dyCount, constant) ==
    LET roles == <<"ResultType", "Result", "SampledImage", "Coordinate">>
                 \o (IF opcode \in DrefOpcodes THEN <<"Dref">>
                     ELSE IF opcode = "OpImageGather" THEN <<"Component">> ELSE <<>>)
                 \o (IF hasMask THEN <<"ImageOperands">> \o OperandRoles(mask) ELSE <<>>)
    IN  [opcode |-> opcode,
         word |-> [k \in 1 .. Len(roles) |-> IF roles[k] = "ImageOperands" THEN mask ELSE k],
         componentCount |->
             [k \in 1 .. Len(roles) |->
                 IF roles[k] = "Coordinate" THEN coordinateCount
                 ELSE IF roles[k] = "Grad" THEN operandCount
                 ELSE IF roles[k] = "GradDy" THEN dyCount
                 ELSE IF roles[k] = "ConstOffset"
                 THEN (operandCount % MaxOperandComponents) + 1
                 ELSE 1],
         constantValue |->
             [k \in 1 .. Len(roles) |-> IF roles[k] \in {"Component", "Dref"} THEN constant ELSE 0]]

\* The masks over the five bits the constructor knows and at most one it
\* does not.
Masks ==
    {bias + lod + grad + constOffset + sample + other :
        bias \in {0, ImageOperandsBiasMask}, lod \in {0, ImageOperandsLodMask},
        grad \in {0, ImageOperandsGradMask},
        constOffset \in {0, ImageOperandsConstOffsetMask},
        sample \in {0, ImageOperandsSampleMask}, other \in {0, 16, 128}}

\* Every opcode with every mask, and the instructions that have no mask word.
\* Only the explicit-lod opcodes cannot omit the mask; OpImageQueryLod has
\* none.  A Proj coordinate has at least two components.
InitSample ==
    /\ \E opcode \in Opcodes, mask \in Masks, hasMask \in BOOLEAN,
          coordinateCount \in 1 .. MaxCoordinateComponents,
          operandCount \in 1 .. MaxOperandComponents,
          dyCount \in 1 .. MaxOperandComponents,
          constant \in 0 .. MaxGatherComponent :
          /\ hasMask \/ (mask = 0 /\ opcode \notin ExplicitLodOpcodes)
          /\ opcode = "OpImageQueryLod" => ~hasMask
          /\ opcode \in ProjOpcodes => coordinateCount >= 2
          /\ operandCount = 1 \/ HasBit(mask, ImageOperandsGradMask)
                              \/ HasBit(mask, ImageOperandsConstOffsetMask)
          /\ dyCount = 1 \/ HasBit(mask, ImageOperandsGradMask)
          /\ constant = 0 \/ opcode \in DrefOpcodes \cup {"OpImageGather"}
          /\ emit = [phase |-> "insn",
                     insn |-> Instruction(opcode, mask, hasMask, coordinateCount,
                                          operandCount, dyCount, constant),
                     instruction |-> [failure |-> "none"], in |-> <<>>,
                     failure |-> "none", dyRead |-> {}]
    /\ CacheIdle /\ ConcIdle /\ ImageIdle /\ CodecIdle /\ QueryIdle

\* ImageInstruction instruction(insn, *this): an ASSERT or UNSUPPORTED ends
\* the compilation of the shader.
DecodeInstruction ==
    /\ emit.phase = "insn"
    /\ LET instruction == ImageInstruction(emit.insn)
       IN  emit' = [emit EXCEPT !.instruction = instruction,
                                !.phase = IF instruction.failure = "none" THEN "decoded"
                                          ELSE "aborted"]
    /\ UNCHANGED <<cacheVars, concVars, imageVars, codecVars, queryVars>>

\* EmitImageSampleUnconditional: the routine is called with the array in,
\* unless callSamplerFunction stops at its assertion.
CallSampler ==
    /\ emit.phase = "decoded"
    /\ \E stray \in {Uninitialized, Float(0)} :
          LET call == callSamplerFunction(emit.instruction, emit.insn, stray)
          IN  emit' = [emit EXCEPT !.in = call.in,
                                  !.failure = call.failure,
                                  !.dyRead = call.dyRead,
                                  !.phase = IF call.failure = "none" THEN "called"
                                            ELSE "aborted"]
    /\ UNCHANGED <<cacheVars, concVars, imageVars, codecVars, queryVars>>

NextSample == DecodeInstruction \/ CallSampler

SpecSample == InitSample /\ [][NextSample]_vars


(***************************************************************************)
(* Properties of decoding and of the sampler call.                         *)
(***************************************************************************)
Constructed == emit.phase \in {"decoded", "called", "aborted"}

\* The bits of the mask word the module gave the instruction (0 if none).
MaskOf(insn) ==
    LET at == IF insn.opcode \in DrefOpcodes \cup {"OpImageGather"} THEN 6 ELSE 5
    IN  IF insn.opcode # "OpImageQueryLod" /\ Len(insn.word) >= at THEN insn.word[at] ELSE 0

\* q = a / b for floats with integral a and b
IsQuotient(q, a, b) ==
    /\ "num" \in DOMAIN q
    /\ q.num * b.num = a.num * q.den

\* C12: for the Proj and ProjDref variants the decoded coordinate count is the
\* component count of the coordinate vector minus one; every coordinate passed
\* to the routine, and the Dref value when present, is the raw value divided
\* by the last component of the raw coordinate vector; and neither the divisor
\* nor any undivided coordinate or Dref value is an element of the input array.
C12_ProjectiveDivide ==
    (Constructed /\ emit.insn.opcode \in ProjOpcodes)
        => LET n == emit.insn.componentCount[4]
               w == OperandFloat(4, n - 1)
               dref == emit.insn.opcode \in DrefOpcodes
               raw == {OperandFloat(4, j) : j \in 0 .. n - 1}
                      \cup (IF dref THEN {OperandFloat(5, 0)} ELSE {})
           IN  /\ emit.instruction.coordinates = n - 1
               /\ emit.phase = "called" =>
                     /\ \A i \in 0 .. n - 2 : IsQuotient(emit.in[i], OperandFloat(4, i), w)
                     /\ dref => IsQuotient(emit.in[n - 1], OperandFloat(5, 0), w)
                     /\ \A k \in 0 .. 15 : emit.in[k] \notin raw

\* A ProjDref sample of a three-component coordinate has called the routine
\* with x / z, y / z and dref / z.
C12_Witness ==
    /\ emit.phase = "called"
    /\ emit.insn.opcode = "OpImageSampleProjDrefImplicitLod"
    /\ emit.insn.componentCount[4] = 3
    /\ emit.instruction.coordinates = 2
    /\ emit.in[0] = Ratio(33, 35)
    /\ emit.in[1] = Ratio(34, 35)
    /\ emit.in[2] = Ratio(41, 35)
    /\ emit.in[3] = Uninitialized

\* C13: unless an assertion fails, the optional operand <id>s are read from
\* consecutive words that start right after the mask word (word 6, or word 7
\* when the instruction has a Dref or is a Gather), in the order bias or lod,
\* grad dx then dy, constant offset, sample, one for each of those bits that
\* is set and none for a bit that is clear; and the constructor ends in the
\* unsupported-feature condition exactly when the mask has any other bit.
C13_OperandWords ==
    (Constructed /\ emit.instruction.failure # "ASSERT")
        => LET i == emit.instruction
               mask == MaskOf(emit.insn)
               first == IF emit.insn.opcode \in DrefOpcodes \cup {"OpImageGather"}
                        THEN 7 ELSE 6
               read == SelectSeq(<<i.lodOrBiasId, i.gradDxId, i.gradDyId, i.offsetId,
                                   i.sampleId>>, LAMBDA id : id # 0)
               other == AndNat(mask, 16 + 32 + 128)
           IN  /\ read = [k \in 1 .. Len(read) |-> first + k - 1]
               /\ (i.lodOrBiasId # 0) = (HasBit(mask, 1) \/ HasBit(mask, 2))
               /\ (i.gradDxId # 0) = HasBit(mask, 4)
               /\ (i.gradDyId # 0) = HasBit(mask, 4)
               /\ (i.offsetId # 0) = HasBit(mask, 8)
               /\ (i.sampleId # 0) = HasBit(mask, 64)
               /\ i.sample = HasBit(mask, 64)
               /\ (other # 0) = (i.failure = "UNSUPPORTED")
               /\ (other # 0) = (emit.phase = "aborted")
               /\ i.unsupported = other

\* An OpImageFetch with Lod, ConstOffset, Sample and MinLod has read the three
\* <id>s it knows from words 6, 7 and 8 and has ended as unsupported.
C13_Witness ==
    /\ emit.phase = "aborted"
    /\ emit.insn.opcode = "OpImageFetch"
    /\ MaskOf(emit.insn) = 2 + 8 + 64 + 128
    /\ emit.instruction.lodOrBiasId = 6
    /\ emit.instruction.offsetId = 7
    /\ emit.instruction.sampleId = 8
    /\ emit.instruction.failure = "UNSUPPORTED"
    /\ emit.instruction.unsupported = 128

\* C14: an explicit-lod sample instruction whose mask has neither Lod nor
\* Grad, or both, is rejected by an assertion: it is never decoded into an
\* instruction with a defaulted method or a missing lod operand.
C14_ExactlyOneOfLodAndGrad ==
    (/\ Constructed
     /\ emit.insn.opcode \in ExplicitLodOpcodes
     /\ HasBit(MaskOf(emit.insn), 2) = HasBit(MaskOf(emit.insn), 4))
        => emit.phase = "aborted" /\ emit.instruction.failure = "ASSERT"

\* An OpImageSampleExplicitLod whose mask is 0 has been decoded as method Lod
\* without a lod operand, and the routine was called with the coordinates only.
C14_LodOperandMissing ==
    /\ emit.phase = "called"
    /\ emit.insn.opcode = "OpImageSampleExplicitLod"
    /\ MaskOf(emit.insn) = 0
    /\ emit.insn.componentCount[4] = 2
    /\ emit.instruction.samplerMethod = "Lod"
    /\ emit.instruction.lodOrBiasId = 0
    /\ emit.in[2] = Uninitialized

\* C15: an OpImageGather takes its component selector from the constant value
\* of the object named by word 5; an OpImageDrefGather has selector 0 and
\* word 5 is its Dref <id>; any other instruction reads no selector.
C15_GatherComponent ==
    Constructed
        => LET i == emit.instruction
           IN  CASE emit.insn.opcode = "OpImageGather" ->
                       /\ i.constantsRead = {emit.insn.word[5]}
                       /\ i.gatherComponent = emit.insn.constantValue[emit.insn.word[5]]
                       /\ i.drefId = 0
                 [] emit.insn.opcode = "OpImageDrefGather" ->
                       /\ i.constantsRead = {}
                       /\ i.gatherComponent = 0
                       /\ i.drefId = emit.insn.word[5]
                 [] OTHER ->
                       /\ i.constantsRead = {}
                       /\ i.gatherComponent = 0

\* An OpImageGather whose word 5 names the constant 1 has been decoded with
\* component selector 1 and the routine has been called.
C15_Witness ==
    /\ emit.phase = "called"
    /\ emit.insn.opcode = "OpImageGather"
    /\ emit.insn.constantValue[5] = 1
    /\ emit.instruction.gatherComponent = 1
    /\ emit.instruction.samplerMethod = "Gather"

\* C16: the routine's input array holds, from element 0 on and without gaps:
\* the coordinates; the Dref value if the variant has one; then exactly one
\* of the lod or bias value, all dx components followed by all dy components,
\* or, for a Fetch with neither, the integer 0; then the components of the
\* constant offset as integer bits; then the sample index as integer bits.
\* Nothing else is assigned.
C16_InputLayout ==
    emit.phase = "called"
        => LET i == emit.instruction
               mask == MaskOf(emit.insn)
               c == emit.insn.componentCount[4]
                    - (IF emit.insn.opcode \in ProjOpcodes THEN 1 ELSE 0)
               d == IF emit.insn.opcode \in DrefOpcodes THEN 1 ELSE 0
               hasLod == HasBit(mask, 1) \/ HasBit(mask, 2)
               hasGrad == HasBit(mask, 4)
               g == IF hasGrad THEN emit.insn.componentCount[i.gradDxId] ELSE 0
               l == IF hasLod THEN 1 ELSE IF hasGrad THEN 2 * g
                    ELSE IF emit.insn.opcode = "OpImageFetch" THEN 1 ELSE 0
               o == IF HasBit(mask, 8) THEN emit.insn.componentCount[i.offsetId] ELSE 0
               n == IF HasBit(mask, 64) THEN 1 ELSE 0
           IN  /\ emit.insn.opcode \notin ProjOpcodes =>
                     \A k \in 0 .. c - 1 : emit.in[k] = OperandFloat(4, k)
               /\ (d = 1 /\ emit.insn.opcode \notin ProjOpcodes) =>
                     emit.in[c] = OperandFloat(5, 0)
               /\ hasLod => emit.in[c + d] = OperandFloat(i.lodOrBiasId, 0)
               /\ (~hasLod /\ hasGrad) =>
                     \A j \in 0 .. g - 1 :
                        /\ emit.in[c + d + j] = OperandFloat(i.gradDxId, j)
                        /\ emit.in[c + d + g + j] = OperandFloat(i.gradDyId, j)
               /\ (~hasLod /\ ~hasGrad /\ emit.insn.opcode = "OpImageFetch") =>
                     emit.in[c + d] = [type |-> "Float", bits |-> 0]
               /\ \A j \in 0 .. o - 1 :
                     emit.in[c + d + l + j] =
                        [type |-> "Float", bits |-> OperandInt(i.offsetId, j).bits]
               /\ n = 1 => emit.in[c + d + l + o] =
                              [type |-> "Float", bits |-> OperandInt(i.sampleId, 0).bits]
               /\ \A k \in 0 .. 15 : (emit.in[k] = Uninitialized) = (k >= c + d + l + o + n)

\* An OpImageFetch with a constant offset and a sample index but no Lod has
\* called the routine with two coordinates, the integer 0 as lod, the offset
\* and the sample index.
C16_Witness ==
    /\ emit.phase = "called"
    /\ emit.insn.opcode = "OpImageFetch"
    /\ MaskOf(emit.insn) = 8 + 64
    /\ emit.insn.componentCount[4] = 2
    /\ emit.instruction.offset = 1
    /\ emit.in[0] = Float(33)
    /\ emit.in[1] = Float(34)
    /\ emit.in[2] = [type |-> "Float", bits |-> 0]
    /\ emit.in[3] = [type |-> "Float", bits |-> 49]
    /\ emit.in[4] = [type |-> "Float", bits |-> 57]
    /\ emit.in[5] = Uninitialized

\* C28: when the dx and dy operands of a Grad instruction have different
\* component counts, callSamplerFunction stops at its assertion; otherwise
\* the routine is called with componentCount(dx) dx values followed by
\* componentCount(dy) dy values.  In both cases no component of dy at or
\* beyond dy's component count is read.
C28_GradientCounts ==
    (/\ emit.phase \in {"called", "aborted"}
     /\ emit.instruction.failure = "none"
     /\ emit.instruction.gradDxId # 0)
        => LET i == emit.instruction
               dx == emit.insn.componentCount[i.gradDxId]
               dy == emit.insn.componentCount[i.gradDyId]
               first == i.coordinates + (IF emit.insn.opcode \in DrefOpcodes THEN 1 ELSE 0)
           IN  /\ emit.dyRead \subseteq 0 .. (dy - 1)
               /\ dx # dy => emit.phase = "aborted" /\ emit.failure = "ASSERT"
               /\ dx = dy =>
                     /\ emit.phase = "called"
                     /\ \A j \in 0 .. (dx - 1) :
                           emit.in[first + j] = OperandFloat(i.gradDxId, j)
                     /\ \A j \in 0 .. (dy - 1) :
                           emit.in[first + dx + j] = OperandFloat(i.gradDyId, j)

\* An OpImageSampleExplicitLod with a dx of two components and a dy of one
\* has called the routine: component 1 of dy, which dy does not have, has
\* been read, and its value sits in the array as the second dy element.
C28_StrayGradient ==
    /\ emit.phase = "called"
    /\ emit.insn.opcode = "OpImageSampleExplicitLod"
    /\ MaskOf(emit.insn) = ImageOperandsGradMask
    /\ emit.insn.componentCount[4] = 2
    /\ emit.insn.componentCount[emit.instruction.gradDxId] = 2
    /\ emit.insn.componentCount[emit.instruction.gradDyId] = 1
    /\ emit.failure = "none"
    /\ emit.dyRead = {0, 1}
    /\ emit.in[2] = OperandFloat(emit.instruction.gradDxId, 0)
    /\ emit.in[3] = OperandFloat(emit.instruction.gradDxId, 1)
    /\ emit.in[4] = OperandFloat(emit.instruction.gradDyId, 0)
    /\ emit.in[5] = Float(0)
    /\ emit.in[6] = Uninitialized

\* An OpImageSampleExplicitLod with a dx of one component and a dy of two
\* has called the routine with one dx and one dy element: component 1 of dy
\* is not in the array.
C16_DyComponentDropped ==
    /\ emit.phase = "called"
    /\ emit.insn.opcode = "OpImageSampleExplicitLod"
    /\ MaskOf(emit.insn) = ImageOperandsGradMask
    /\ emit.insn.componentCount[4] = 2
    /\ emit.insn.componentCount[emit.instruction.gradDxId] = 1
    /\ emit.insn.componentCount[emit.instruction.gradDyId] = 2
    /\ emit.in[2] = OperandFloat(emit.instruction.gradDxId, 0)
    /\ emit.in[3] = OperandFloat(emit.instruction.gradDyId, 0)
    /\ \A k \in 4 .. 15 : emit.in[k] = Uninitialized

(***************************************************************************)
(* Image queries.  One OpImageQuerySizeLod, OpImageQuerySize,              *)
(* OpImageQueryLevels or OpImageQuerySamples on an image binding: the      *)
(* image type, the binding's descriptor type, the descriptor, and the Lod  *)
(* operand as a SIMD::Int (one level per lane).  The descriptor's memory   *)
(* is laid out as one of two shapes, vk::StorageImageDescriptor and        *)
(* vk::SampledImageDescriptor; the model holds what a read through either  *)
(* shape's offsets finds.  For an arrayed image the depth field holds the  *)
(* layer count, as GetTexelAddress takes it to when it checks the layer    *)
(* coordinate against it.                                                  *)
(***************************************************************************)
MaxLod == 2

\* Variant: the shifted extent is not floored at one.
ShiftedExtentNoFloor(extent, lod) == [l \in Lanes |-> Sar32(extent, lod[l])]

\* Variant: the level of the first lane is applied to every lane.
ShiftedExtentFirstLane(extent, lod) ==
    [l \in Lanes |-> LET s == Sar32(extent, lod[0]) IN IF s < 1 THEN 1 ELSE s]

\* Max(SIMD::Int(extent) >> lod, one) (lines 441-443)
ShiftedExtent(extent, lod) ==
    [l \in Lanes |-> LET s == Sar32(extent, lod[l]) IN IF s < 1 THEN 1 ELSE s]

\* GetImageDimensions: the components moved to dst, or the failure.  A
\* component no move reaches keeps the lanes of a fresh intermediate.
GetImageDimensions(q, hasLod) ==
    LET isArrayed == q.arrayed
        dimensions == q.componentCount - (IF isArrayed THEN 1 ELSE 0)
        shape == CASE q.descriptorType \in {"STORAGE_IMAGE", "STORAGE_TEXEL_BUFFER"} ->
                        "storage"
                   [] q.descriptorType \in {"COMBINED_IMAGE_SAMPLER", "SAMPLED_IMAGE",
                                             "UNIFORM_TEXEL_BUFFER"} -> "sampled"
                   [] OTHER -> "none"
    IN  IF shape = "none" THEN [failure |-> "UNREACHABLE", dst |-> <<>>]
        ELSE LET d == q.descriptor[shape]
                 extent == <<d.width, d.height, d.depth>>
             IN  [failure |-> "none",
                  dst |-> [i \in 0 .. (q.componentCount - 1) |->
                             IF isArrayed /\ i = dimensions THEN [l \in Lanes |-> d.depth]
                             ELSE IF i < dimensions /\ i < 3
                             THEN IF hasLod THEN ShiftedExtent(extent[i + 1], q.lod)
                                  ELSE [l \in Lanes |-> extent[i + 1]]
                             ELSE [l \in Lanes |-> 0 - 1]]]

InitQuery ==
    LET Spatial(dim) == CASE dim \in {"1D", "Buffer"} -> 1
                          [] dim \in {"2D", "Cube"} -> 2
                          [] OTHER -> 3
    IN
    /\ \E opcode \in {"OpImageQuerySizeLod", "OpImageQuerySize", "OpImageQueryLevels",
                      "OpImageQuerySamples"},
          dim \in {"1D", "2D", "3D", "Cube", "Buffer"}, arrayed \in BOOLEAN, ms \in {0, 1},
          descriptorType \in {"STORAGE_IMAGE", "STORAGE_TEXEL_BUFFER",
                              "COMBINED_IMAGE_SAMPLER", "SAMPLED_IMAGE",
                              "UNIFORM_TEXEL_BUFFER", "INPUT_ATTACHMENT"},
          width \in {1, 5} :
          /\ arrayed => dim \in {"1D", "2D", "Cube"}
          /\ ms = 1 => dim = "2D"
          /\ \E lod \in [Lanes -> 0 .. MaxLod] :
                LET depth == IF arrayed \/ dim = "3D" THEN 3 ELSE 1
                    sampleCount == IF ms = 1 THEN 4 ELSE 1
                    size == opcode \in {"OpImageQuerySizeLod", "OpImageQuerySize"}
                    storage == descriptorType \in {"STORAGE_IMAGE", "STORAGE_TEXEL_BUFFER"}
                    Shape(own, k) ==
                        [width |-> IF own THEN width ELSE width + k,
                         height |-> IF own THEN 6 ELSE 6 + k,
                         depth |-> IF own THEN depth ELSE depth + k,
                         mipLevels |-> IF own THEN 3 ELSE 3 + k,
                         sampleCount |-> IF own THEN sampleCount ELSE sampleCount + k]
                IN  query = [phase |-> "insn", opcode |-> opcode, dim |-> dim,
                             arrayed |-> arrayed, ms |-> ms,
                             componentCount |->
                                 IF size THEN Spatial(dim) + (IF arrayed THEN 1 ELSE 0)
                                 ELSE 1,
                             descriptorType |-> descriptorType,
                             descriptor |-> [storage |-> Shape(storage, 16),
                                             sampled |-> Shape(~storage, 32)],
                             lod |-> lod, failure |-> "none", dst |-> <<>>]
    /\ CacheIdle /\ ConcIdle /\ ImageIdle /\ CodecIdle /\ SampleIdle

\* The instruction ends: normally with its result, or in a failed assertion
\* or an unreachable case.
Finish(failure, dst) ==
    query' = [query EXCEPT !.phase = IF failure = "none" THEN "done" ELSE "aborted",
                           !.failure = failure, !.dst = dst]

EmitImageQuerySizeLod ==
    /\ query.phase = "insn" /\ query.opcode = "OpImageQuerySizeLod"
    /\ LET r == GetImageDimensions(query, TRUE) IN Finish(r.failure, r.dst)
    /\ UNCHANGED <<cacheVars, concVars, imageVars, codecVars, sampleVars>>

EmitImageQuerySize ==
    /\ query.phase = "insn" /\ query.opcode = "OpImageQuerySize"
    /\ LET r == GetImageDimensions(query, FALSE) IN Finish(r.failure, r.dst)
    /\ UNCHANGED <<cacheVars, concVars, imageVars, codecVars, sampleVars>>

EmitImageQueryLevels ==
    /\ query.phase = "insn" /\ query.opcode = "OpImageQueryLevels"
    /\ IF query.componentCount # 1 THEN Finish("ASSERT", <<>>)
       ELSE IF query.descriptorType \in {"COMBINED_IMAGE_SAMPLER", "SAMPLED_IMAGE",
                                         "UNIFORM_TEXEL_BUFFER"}
       THEN Finish("none", [i \in {0} |-> [l \in Lanes |-> query.descriptor.sampled.mipLevels]])
       ELSE Finish("UNREACHABLE", <<>>)
    /\ UNCHANGED <<cacheVars, concVars, imageVars, codecVars, sampleVars>>

\* Variant: the sample count is read through the storage shape for every
\* descriptor type the switch knows.
EmitImageQuerySamplesStorageShape ==
    /\ query.phase = "insn" /\ query.opcode = "OpImageQuerySamples"
    /\ IF query.componentCount # 1 \/ query.dim # "2D" \/ query.ms # 1
       THEN Finish("ASSERT", <<>>)
       ELSE IF query.descriptorType \in {"STORAGE_IMAGE", "COMBINED_IMAGE_SAMPLER",
                                         "SAMPLED_IMAGE", "UNIFORM_TEXEL_BUFFER"}
       THEN Finish("none",
                   [i \in {0} |-> [l \in Lanes |-> query.descriptor.storage.sampleCount]])
       ELSE Finish("UNREACHABLE", <<>>)
    /\ UNCHANGED <<cacheVars, concVars, imageVars, codecVars, sampleVars>>

\* The assertions of lines 490-495, then the switch of lines 502-514.
EmitImageQuerySamples ==
    /\ query.phase = "insn" /\ query.opcode = "OpImageQuerySamples"
    /\ IF query.componentCount # 1 \/ query.dim # "2D" \/ query.ms # 1
       THEN Finish("ASSERT", <<>>)
       ELSE IF query.descriptorType = "STORAGE_IMAGE"
       THEN Finish("none",
                   [i \in {0} |-> [l \in Lanes |-> query.descriptor.storage.sampleCount]])
       ELSE IF query.descriptorType \in {"COMBINED_IMAGE_SAMPLER", "SAMPLED_IMAGE",
                                         "UNIFORM_TEXEL_BUFFER"}
       THEN Finish("none",
                   [i \in {0} |-> [l \in Lanes |-> query.descriptor.sampled.sampleCount]])
       ELSE Finish("UNREACHABLE", <<>>)
    /\ UNCHANGED <<cacheVars, concVars, imageVars, codecVars, sampleVars>>

NextQuery ==
    \/ EmitImageQuerySizeLod
    \/ EmitImageQuerySize
    \/ EmitImageQueryLevels
    \/ EmitImageQuerySamples

SpecQuery == InitQuery /\ [][NextQuery]_vars

(***************************************************************************)
(* Properties of the image queries.                                        *)
(***************************************************************************)

\* The descriptor as the binding's own shape lays it out.
OwnShape ==
    IF query.descriptorType \in {"STORAGE_IMAGE", "STORAGE_TEXEL_BUFFER"}
    THEN query.descriptor.storage ELSE query.descriptor.sampled

SizeQueryDone ==
    query.phase = "done" /\ query.opcode \in {"OpImageQuerySizeLod", "OpImageQuerySize"}

\* Is r the extent e at mip level k, max(e >> k, 1)?
IsMipExtent(r, e, k) ==
    IF e < Pow2(k) THEN r = 1 ELSE r * Pow2(k) <= e /\ e < (r + 1) * Pow2(k)

\* C25: OpImageQuerySize and OpImageQuerySizeLod return in result component
\* i, for each spatial dimension i, the descriptor's width, height or depth:
\* as stored without a Lod operand, max(extent >> lod, 1) with one; for an
\* arrayed image the spatial dimensions are the component count minus one and
\* the last component is the layer count, which the level does not shift.
C25_QuerySize ==
    SizeQueryDone =>
        LET d == OwnShape
            extent == <<d.width, d.height, d.depth>>
            spatial == query.componentCount - (IF query.arrayed THEN 1 ELSE 0)
        IN  /\ DOMAIN query.dst = 0 .. (query.componentCount - 1)
            /\ \A l \in Lanes :
                  /\ \A i \in 0 .. (spatial - 1) :
                        IF query.opcode = "OpImageQuerySizeLod"
                        THEN IsMipExtent(query.dst[i][l], extent[i + 1], query.lod[l])
                        ELSE query.dst[i][l] = extent[i + 1]
                  /\ query.arrayed => query.dst[spatial][l] = d.depth

\* C25 witness: the size at level 2 (lane 0) and level 1 (lane 1) of a
\* 5 x 6 2D array image of 3 layers: (1, 1, 3) and (2, 3, 3).
C25_Witness ==
    /\ SizeQueryDone
    /\ query.opcode = "OpImageQuerySizeLod"
    /\ query.dim = "2D" /\ query.arrayed
    /\ OwnShape.width = 5 /\ OwnShape.height = 6 /\ OwnShape.depth = 3
    /\ query.lod[0] = 2 /\ query.lod[1] = 1
    /\ query.dst[0][0] = 1 /\ query.dst[1][0] = 1 /\ query.dst[2][0] = 3
    /\ query.dst[0][1] = 2 /\ query.dst[1][1] = 3 /\ query.dst[2][1] = 3

\* C26 as stated: every query produces, per result component, one value that
\* is the same in every lane, whatever the lanes of its operands hold.
C26_UniformResult ==
    query.phase = "done" =>
        \A i \in DOMAIN query.dst : \A l, m \in Lanes : query.dst[i][l] = query.dst[i][m]

\* C26 as amended: OpImageQuerySize, OpImageQueryLevels and
\* OpImageQuerySamples produce per component one value that is the same in
\* every lane; OpImageQuerySizeLod gives each lane the size at that lane's own
\* level, so lanes whose levels are equal hold the same value, and the layer
\* count of an arrayed image is the same in every lane.
C26_UniformPerLevel ==
    query.phase = "done" =>
        \A i \in DOMAIN query.dst : \A l, m \in Lanes :
            /\ (query.opcode # "OpImageQuerySizeLod"
                \/ query.lod[l] = query.lod[m]
                \/ (query.arrayed /\ i = query.componentCount - 1))
                  => query.dst[i][l] = query.dst[i][m]
            /\ (query.opcode = "OpImageQuerySizeLod"
                /\ ~(query.arrayed /\ i = query.componentCount - 1))
                  => IsMipExtent(query.dst[i][l],
                                 <<OwnShape.width, OwnShape.height, OwnShape.depth>>[i + 1],
                                 query.lod[l])

\* C26 witness: an OpImageQuerySizeLod whose lanes ask for levels 0 and 1 of
\* a width of 5 holds 5 in one lane and 2 in the other.
C26_Witness ==
    /\ query.phase = "done"
    /\ query.opcode = "OpImageQuerySizeLod"
    /\ query.lod[0] = 0 /\ query.lod[1] = 1
    /\ OwnShape.width = 5
    /\ query.dst[0][0] = 5 /\ query.dst[0][1] = 2

QuerySamplesOver ==
    query.opcode = "OpImageQuerySamples" /\ query.phase # "insn"

\* The sample count stored in the descriptor, read through the storage shape
\* for a storage image and through the sampled shape otherwise.
StoredSampleCount ==
    IF query.descriptorType = "STORAGE_IMAGE" THEN query.descriptor.storage.sampleCount
    ELSE query.descriptor.sampled.sampleCount

\* C27 as stated: OpImageQuerySamples fails an assertion when the image type
\* is arrayed, not 2D or not multisampled, and otherwise returns the
\* descriptor's stored sample count.
C27_AssertsNonArrayed ==
    QuerySamplesOver =>
        /\ (query.arrayed \/ query.dim # "2D" \/ query.ms # 1) => query.failure = "ASSERT"
        /\ query.phase = "done" => \A l \in Lanes : query.dst[0][l] = StoredSampleCount

\* C27 as amended: OpImageQuerySamples fails an assertion exactly when the
\* image type is not 2D or not multisampled; for a 2D multisampled image,
\* arrayed or not, it returns in every lane the descriptor's stored sample
\* count, read through the shape of the binding's descriptor type (a
\* descriptor type without a case is unreachable).
C27_QuerySamples ==
    QuerySamplesOver =>
        /\ (query.failure = "ASSERT") = (query.dim # "2D" \/ query.ms # 1)
        /\ (query.phase = "done") =
              (/\ query.dim = "2D" /\ query.ms = 1
               /\ query.descriptorType \in {"STORAGE_IMAGE", "COMBINED_IMAGE_SAMPLER",
                                            "SAMPLED_IMAGE", "UNIFORM_TEXEL_BUFFER"})
        /\ query.phase = "done" =>
              /\ DOMAIN query.dst = {0}
              /\ \A l \in Lanes : query.dst[0][l] = StoredSampleCount

\* C27 witness: the sample count 4 of an arrayed 2D multisampled image bound
\* as a combined image sampler has been returned.
C27_Witness ==
    /\ QuerySamplesOver
    /\ query.phase = "done"
    /\ query.arrayed /\ query.dim = "2D" /\ query.ms = 1
    /\ query.descriptorType = "COMBINED_IMAGE_SAMPLER"
    /\ query.dst[0][0] = 4 /\ query.descriptor.storage.sampleCount # 4

====
